---- MODULE Spec2Model ----
(***************************************************************************)
(* Slender lending pool: accounting and risk engine.                       *)
(*                                                                         *)
(* The pool entry points deposit / withdraw / borrow / finalize_transfer   *)
(* and calc_account_data follow src/pool/src/lib.rs; liquidate follows     *)
(* src/contracts/pool/src/methods/liquidate.rs; the s-token contract       *)
(* follows src/s-token/src/lib.rs.  Code that those files call but that is *)
(* not part of the source tree (FixedI128, the user-configuration bitmap,  *)
(* the debt token, the underlying token, the rate model) is modelled from  *)
(* the specification.                                                      *)
(*                                                                         *)
(* Numbers are scaled so that every product stays inside TLC's integers:   *)
(* the fixed-point denominator is 10^4 instead of 10^9, one ledger tick is *)
(* one year.                                                               *)
(***************************************************************************)
EXTENDS Integers, Sequences, FiniteSets, TLC

(* ----------------------------- constants ------------------------------ *)

\* common::PERCENTAGE_FACTOR
PERCENTAGE_FACTOR == 10000

\* FixedI128::DENOMINATOR (10^9 in the program, 10^4 here)
DENOMINATOR == 10000

\* seconds per year of the rate model (one tick here)
ONE_YEAR == 1

\* i128::MAX, the "withdraw everything" amount
I128_MAX == 1000000

(* ------------------------------ bounds -------------------------------- *)

\* number of entry-point invocations explored from the initial state
MaxOps == 3

\* number of invocations explored from the borrower's two-collateral position
LiqOps == 2

\* ledger ticks explored
MaxTime == 1

\* number of invocations explored on the reserve the borrower borrows from
RateOps == 4

\* ledger ticks explored on that reserve
RateTime == 2

\* number of invocations explored once the liquidator is in debt
SeizeOps == 3

\* underlying of every asset each user starts with
UserFunds == 2000

\* underlying of every asset the lender has deposited
Liquidity == 1000

\* underlying of every asset the flash-loan receiver contract holds
ReceiverFunds == 10

\* the amounts the users invoke the pool with
DepositAmounts == {7, 1000}

BorrowAmounts == {5, 600}

WithdrawAmounts == {400, I128_MAX}

RepayAmounts == {3, I128_MAX}

TransferAmounts == {1000}

FlashLoanAmounts == {100}

\* the prices the feed reports for asset 1 (FixedI128 inner; 10000 is 1.0)
Prices == {5000, 10000, 20000}

\* the values set_pool_configuration is called with
AssetsLimits == {2, 3}

InitialHealths == {0, 2500}

MinDebtAmounts == {0, 150}

\* the users that invoke the pool
Users == {"borrower", "liquidator"}

\* the holders of s-tokens and debt tokens: the users and a lender whose
\* deposits fund the reserves
Accounts == Users \cup {"lender"}

\* holders of the underlying asset of a reserve: the accounts, the reserve's
\* s-token contract, the treasury, the flash-loan receiver contract
Holders == Accounts \cup {"stoken", "treasury", "receiver"}

\* reserve ids, in ReserveList order; reserve 0 is the base asset
Reserves == {0, 1, 2}

BaseAsset == 0

(* ----------------------------- FixedI128 ------------------------------ *)

Abs(x) == IF x < 0 THEN -x ELSE x

Min(a, b) == IF a <= b THEN a ELSE b

Max(a, b) == IF a >= b THEN a ELSE b

\* Rust integer division: truncation toward zero (b # 0)
TruncDiv(a, b) ==
    IF (a < 0) = (b < 0) THEN Abs(a) \div Abs(b) ELSE -(Abs(a) \div Abs(b))

\* FixedI128::from_rational(n, d); callers test d # 0 (None in the program)
from_rational(n, d) == TruncDiv(n * DENOMINATOR, d)

\* FixedI128::from_percentage(bps)
from_percentage(bps) == from_rational(bps, PERCENTAGE_FACTOR)

\* FixedI128::mul_int: inner * x / DENOMINATOR, toward zero
mul_int(inner, x) == TruncDiv(inner * x, DENOMINATOR)

\* FixedI128::recip_mul_int: x * DENOMINATOR / inner; callers test inner # 0
recip_mul_int(inner, x) == TruncDiv(x * DENOMINATOR, inner)

\* FixedI128::checked_mul
checked_mul(a, b) == TruncDiv(a * b, DENOMINATOR)

ONE == DENOMINATOR

(* ------------------------------- state -------------------------------- *)

VARIABLES
    underlying,                \* [Reserves -> [Holders -> Int]]  underlying token balances
    s_balance,                 \* [Reserves -> [Users -> Int]]    s-token contract: Balance
    s_supply,                  \* [Reserves -> Int]               s-token contract: TotalSupply
    d_balance,                 \* [Reserves -> [Users -> Int]]    debt-token contract: Balance
    d_supply,                  \* [Reserves -> Int]               debt-token contract: TotalSupply
    token_balance,             \* pool storage TokenBalance(token, user)
    token_total_supply,        \* pool storage TokenTotalSupply(token)
    stoken_underlying_balance, \* pool storage STokenUnderlyingBalance(s_token)
    user_config,               \* pool storage UserConfig(addr)
    reserves,                  \* pool storage Reserves(asset)
    pool_config,               \* pool storage PoolConfig
    price,                     \* price feed: median TWAP of each asset, FixedI128 inner
    now,                       \* env.ledger().timestamp()
    paused,                    \* pool storage Pause
    unpaused_at,               \* ledger time at which set_pause(false) last lifted a pause
    ops,                       \* number of invocations so far
    last,                      \* the last invocation and its result
    permission_owners,         \* pool storage PermissionOwners(permission)
    feed_twaps,                \* the TWAP each price feed of asset 1 reports, in feed decimals
    provider_prices,           \* PriceProvider::prices of the call in progress
    reserves_vec,              \* pool storage Reserves: the assets of the reserves, in order of admission
    reserve_ids                 \* [listed asset -> ReserveData.id]

vars == <<underlying, s_balance, s_supply, d_balance, d_supply, token_balance,
          token_total_supply, stoken_underlying_balance, user_config, reserves,
          pool_config, price, now, paused, unpaused_at, ops, last,
          permission_owners, feed_twaps, provider_prices,
          reserves_vec, reserve_ids>>

\* the pool's and the token contracts' storage as one value: what a
\* transaction reads, and what it commits when it succeeds
Cur == [underlying |-> underlying, s_balance |-> s_balance, s_supply |-> s_supply,
        d_balance |-> d_balance, d_supply |-> d_supply,
        token_balance |-> token_balance, token_total_supply |-> token_total_supply,
        stoken_underlying_balance |-> stoken_underlying_balance,
        user_config |-> user_config, reserves |-> reserves]

Commit(S) ==
    /\ underlying' = S.underlying
    /\ s_balance' = S.s_balance
    /\ s_supply' = S.s_supply
    /\ d_balance' = S.d_balance
    /\ d_supply' = S.d_supply
    /\ token_balance' = S.token_balance
    /\ token_total_supply' = S.token_total_supply
    /\ stoken_underlying_balance' = S.stoken_underlying_balance
    /\ user_config' = S.user_config
    /\ reserves' = S.reserves

\* F applied to the value of v: a call's result handed to what follows it
Then(v, F(_)) == CHOOSE y \in {F(x) : x \in {v}} : TRUE

\* a transaction's outcome: the error it fails with ("Ok" if none) and the
\* storage it leaves (the storage it started from when it fails)
Result(e, S) == [err |-> e, st |-> S]

(* --------------------------- faulty variants -------------------------- *)
(* Deliberately wrong versions of operators of the model.  A property that  *)
(* still holds when the operator is exchanged for its variant does not      *)
(* depend on that operator.                                                 *)

\* is_good_position that calls no position good
never_good_position(account_data) == FALSE

\* is_good_position that calls every position good
always_good_position(account_data) == TRUE

\* require_not_paused that does not read the pause flag
require_not_paused_ignored == "Ok"

\* covers_new_borrow that admits every position
covers_any_borrow(account_data) == TRUE

\* set_borrowing that never changes the borrowing bitmap
set_borrowing_ignored(cfg, i, flag, limit) == [err |-> "Ok", cfg |-> cfg]

\* set_using_as_collateral that does not look at user_assets_limit
set_using_as_collateral_unlimited(cfg, i, flag, limit) ==
    [err |-> "Ok",
     cfg |-> [exists |-> TRUE,
              collateral |-> IF flag THEN cfg.collateral \cup {i}
                             ELSE cfg.collateral \ {i},
              borrowing |-> cfg.borrowing,
              total_assets |-> IF flag /\ i \notin cfg.collateral \cup cfg.borrowing
                               THEN cfg.total_assets + 1
                               ELSE IF ~flag /\ i \in cfg.collateral \ cfg.borrowing
                               THEN cfg.total_assets - 1
                               ELSE cfg.total_assets]]

(* ------------------------- user configuration ------------------------- *)

\* UserConfiguration::default(): no storage entry yet
NoConfig == [exists |-> FALSE, collateral |-> {}, borrowing |-> {}, total_assets |-> 0]

is_using_as_collateral(cfg, i) == i \in cfg.collateral

is_borrowing(cfg, i) == i \in cfg.borrowing

is_using_as_collateral_or_borrowing(cfg, i) == i \in cfg.collateral \cup cfg.borrowing

is_empty(cfg) == cfg.collateral = {} /\ cfg.borrowing = {}

\* total_assets after the bitmaps change from (c0, b0) to (c1, b1): one per
\* reserve that becomes used, minus one per reserve that stops being used
count_assets(cfg, c1, b1) ==
    cfg.total_assets
        + Cardinality((c1 \cup b1) \ (cfg.collateral \cup cfg.borrowing))
        - Cardinality((cfg.collateral \cup cfg.borrowing) \ (c1 \cup b1))

\* UserConfiguration::set_using_as_collateral; err is "Ok" or the error
set_using_as_collateral(cfg, i, flag, limit) ==
    LET c1 == IF flag THEN cfg.collateral \cup {i} ELSE cfg.collateral \ {i}
        n1 == count_assets(cfg, c1, cfg.borrowing)
    IN  IF flag /\ is_borrowing(cfg, i)
        THEN [err |-> "MustNotHaveDebt", cfg |-> cfg]
        ELSE IF n1 > cfg.total_assets /\ n1 > limit
        THEN [err |-> "UserAssetsLimitExceeded", cfg |-> cfg]
        ELSE [err |-> "Ok",
              cfg |-> [exists |-> TRUE, collateral |-> c1,
                       borrowing |-> cfg.borrowing, total_assets |-> n1]]

\* UserConfiguration::set_borrowing; err is "Ok" or the error
set_borrowing(cfg, i, flag, limit) ==
    LET b1 == IF flag THEN cfg.borrowing \cup {i} ELSE cfg.borrowing \ {i}
        n1 == count_assets(cfg, cfg.collateral, b1)
    IN  IF n1 > cfg.total_assets /\ n1 > limit
        THEN [err |-> "UserAssetsLimitExceeded", cfg |-> cfg]
        ELSE [err |-> "Ok",
              cfg |-> [exists |-> TRUE, collateral |-> cfg.collateral,
                       borrowing |-> b1, total_assets |-> n1]]

(* --------------------------- token contracts -------------------------- *)

\* token::Client::transfer of the underlying asset: panics on a negative
\* amount or an insufficient balance
token_transfer(S, asset, from, to, amount) ==
    IF amount < 0 \/ S.underlying[asset][from] < amount
    THEN Result("TokenTransferFailed", S)
    ELSE IF from = to THEN Result("Ok", S)
    ELSE Result("Ok",
            [S EXCEPT !.underlying[asset][from] = @ - amount,
                      !.underlying[asset][to] = @ + amount])

\* SToken::mint -> do_mint
s_token_mint(S, asset, to, amount) ==
    IF amount = 0 THEN Result("STokenInvalidMintAmount", S)
    ELSE Result("Ok", [S EXCEPT !.s_balance[asset][to] = @ + amount,
                                !.s_supply[asset] = @ + amount])

\* SToken::burn -> do_burn
s_token_burn(S, asset, from, amount_to_burn, amount_to_withdraw, to) ==
    IF amount_to_burn = 0 THEN Result("STokenInvalidBurnAmount", S)
    ELSE IF amount_to_burn < 0 \/ S.s_balance[asset][from] < amount_to_burn
    THEN Result("STokenInsufficientBalance", S)
    ELSE token_transfer(
            [S EXCEPT !.s_balance[asset][from] = @ - amount_to_burn,
                      !.s_supply[asset] = @ - amount_to_burn],
            asset, "stoken", to, amount_to_withdraw)

\* SToken::do_transfer without the pool's validation (transfer_on_liquidation)
s_token_move(S, asset, from, to, amount) ==
    IF amount < 0 \/ S.s_balance[asset][from] < amount
    THEN Result("STokenInsufficientBalance", S)
    ELSE IF from = to THEN Result("Ok", S)
    ELSE Result("Ok", [S EXCEPT !.s_balance[asset][from] = @ - amount,
                                !.s_balance[asset][to] = @ + amount])

\* SToken::transfer_underlying_to
transfer_underlying_to(S, asset, to, amount) ==
    token_transfer(S, asset, "stoken", to, amount)

\* DebtToken::mint
debt_token_mint(S, asset, to, amount) ==
    IF amount < 0 THEN Result("DebtTokenNegativeAmount", S)
    ELSE Result("Ok", [S EXCEPT !.d_balance[asset][to] = @ + amount,
                                !.d_supply[asset] = @ + amount])

\* DebtToken::burn
debt_token_burn(S, asset, from, amount) ==
    IF amount < 0 \/ S.d_balance[asset][from] < amount
    THEN Result("DebtTokenInsufficientBalance", S)
    ELSE Result("Ok", [S EXCEPT !.d_balance[asset][from] = @ - amount,
                                !.d_supply[asset] = @ - amount])

(* --------------------------- reserve indices -------------------------- *)

\* rate::calc_accrued_rate_coeff: prev_ar * (1 + ir * elapsed / year)
calc_accrued_rate_coeff(prev_ar, ir, elapsed) ==
    checked_mul(prev_ar, ONE + TruncDiv(ir * elapsed, ONE_YEAR))

\* LendingPool::get_collateral_coeff
get_collateral_coeff(reserve) ==
    LET elapsed_time == now - reserve.last_update_timestamp
    IN  IF elapsed_time = 0 THEN reserve.collat_accrued_rate
        ELSE calc_accrued_rate_coeff(reserve.collat_accrued_rate, reserve.lend_ir,
                                     elapsed_time)

\* LendingPool::get_debt_coeff
get_debt_coeff(reserve) ==
    LET elapsed_time == now - reserve.last_update_timestamp
    IN  IF elapsed_time = 0 THEN reserve.debt_accrued_rate
        ELSE calc_accrued_rate_coeff(reserve.debt_accrued_rate, reserve.debt_ir,
                                     elapsed_time)

\* IRParams after initialize, in bps; alpha is 1
ir_params == [initial_rate |-> 1000, max_rate |-> 20000, scaling_coeff |-> 9000]

\* rate: utilization of a reserve from its two supplies, clamped to
\* [0, util_cap]
calc_utilization(total_collateral, total_debt, reserve) ==
    IF total_collateral <= 0 \/ total_debt <= 0 THEN 0
    ELSE Min(from_rational(total_debt, total_collateral),
             from_percentage(reserve.util_cap))

\* rate::calc_interest_rate: the borrower rate at utilization u,
\* initial_rate / (1 - u) capped at max_rate
calc_interest_rate(u) ==
    Min(from_rational(from_percentage(ir_params.initial_rate), ONE - u),
        from_percentage(ir_params.max_rate))

\* rate: the lender rate, the borrower rate scaled by scaling_coeff and by the
\* utilization
calc_lender_rate(debt_ir, u) ==
    checked_mul(checked_mul(debt_ir, from_percentage(ir_params.scaling_coeff)), u)

\* AccruedRates: the two rates and the two indices carried over elapsed_time
\* at those rates
AccruedRates(reserve, debt_ir, lend_ir, elapsed_time) ==
    [collat_accrued_rate |->
         calc_accrued_rate_coeff(reserve.collat_accrued_rate, lend_ir, elapsed_time),
     debt_accrued_rate |->
         calc_accrued_rate_coeff(reserve.debt_accrued_rate, debt_ir, elapsed_time),
     debt_ir |-> debt_ir, lend_ir |-> lend_ir]

\* rate: the accrued rates at utilization u and borrower rate debt_ir
accrued_rates_at(reserve, u, debt_ir, elapsed_time) ==
    AccruedRates(reserve, debt_ir, calc_lender_rate(debt_ir, u), elapsed_time)

\* rate: the accrued rates at utilization u
accrued_rates_of(reserve, u, elapsed_time) ==
    accrued_rates_at(reserve, u, calc_interest_rate(u), elapsed_time)

\* rate::calc_accrued_rates: the two rates at the current utilization and the
\* two indices carried over elapsed_time at those rates
calc_accrued_rates(total_collateral, total_debt, elapsed_time, reserve) ==
    accrued_rates_of(reserve, calc_utilization(total_collateral, total_debt, reserve),
                     elapsed_time)

\* faulty variant of with_accrued_rates: the two indices are written to each
\* other's field
with_accrued_rates_swapped(reserve, accrued_rates) ==
    [reserve EXCEPT !.collat_accrued_rate = accrued_rates.debt_accrued_rate,
                    !.debt_accrued_rate = accrued_rates.collat_accrued_rate,
                    !.debt_ir = accrued_rates.debt_ir,
                    !.lend_ir = accrued_rates.lend_ir,
                    !.last_update_timestamp = now]

\* the reserve as get_actual_reserve_data writes it back
with_accrued_rates(reserve, accrued_rates) ==
    [reserve EXCEPT !.collat_accrued_rate = accrued_rates.collat_accrued_rate,
                    !.debt_accrued_rate = accrued_rates.debt_accrued_rate,
                    !.debt_ir = accrued_rates.debt_ir,
                    !.lend_ir = accrued_rates.lend_ir,
                    !.last_update_timestamp = now]

\* get_actual_reserve_data: the reserve with its indices and rates brought to
\* the current time, written back when time has passed
get_actual_reserve_data(S, asset) ==
    IF now - S.reserves[asset].last_update_timestamp = 0 THEN S
    ELSE [S EXCEPT !.reserves[asset] =
            with_accrued_rates(@,
                calc_accrued_rates(S.s_supply[asset], S.d_supply[asset],
                                   now - @.last_update_timestamp, @))]

\* recalculate_reserve_data on the reserve data the caller holds: the indices
\* and rates of reserve brought to the current time at the supplies of S and
\* written to storage, when time has passed since reserve was updated
recalculate_reserve(S, asset, reserve) ==
    IF now - reserve.last_update_timestamp = 0 THEN S
    ELSE [S EXCEPT !.reserves[asset] =
            with_accrued_rates(reserve,
                calc_accrued_rates(S.s_supply[asset], S.d_supply[asset],
                                   now - reserve.last_update_timestamp, reserve))]

\* recalculate_reserve_data by a caller that holds the reserve as stored
recalculate_reserve_data(S, asset) == recalculate_reserve(S, asset, S.reserves[asset])

(* ---------------------------- price provider -------------------------- *)

\* PriceFeed::feed_decimals of every feed
feed_decimals == 4

RECURSIVE ten_pow(_)
\* 10i128.pow(n)
ten_pow(n) == IF n = 0 THEN 1 ELSE 10 * ten_pow(n - 1)

\* Option<i128> of Map::get on PriceProvider::prices
NoPrice == [some |-> FALSE, price |-> 0]

SomePrice(p) == [some |-> TRUE, price |-> p]

\* PriceProvider::new: no price is computed yet
NoPrices == [r \in Reserves |-> NoPrice]

RECURSIVE MapKeys(_)
\* Map::keys: the keys of a map in ascending order, each key once
MapKeys(keys) ==
    IF keys = {} THEN <<>>
    ELSE <<CHOOSE k \in keys : \A other \in keys : k <= other>>
            \o MapKeys(keys \ {CHOOSE k \in keys : \A other \in keys : k <= other})

\* PriceProvider::median
median(prices) ==
    IF Len(prices) = 1 THEN prices[1]
    ELSE IF Len(prices) % 2 = 0
    THEN TruncDiv(prices[Len(prices) \div 2] + prices[Len(prices) \div 2 + 1], 2)
    ELSE prices[Len(prices) \div 2 + 1]

\* PriceProvider::price, the TWAP of one feed as a FixedI128
twap_price(twap) == from_rational(twap, ten_pow(feed_decimals))

\* PriceProvider::price with the feeds of asset reporting the TWAPs twaps:
\* the price returned and PriceProvider::prices after the call
provider_price(prices, asset, twaps) ==
    IF prices[asset].some
    THEN [price |-> prices[asset].price, prices |-> prices]
    ELSE LET sorted_twap_prices == {twap_price(twaps[i]) : i \in 1..Len(twaps)}
             median_twap_price == median(MapKeys(sorted_twap_prices))
         IN  [price |-> median_twap_price,
              prices |-> [prices EXCEPT ![asset] = SomePrice(median_twap_price)]]

\* LendingPool::get_asset_price: the feed's price as a FixedI128
get_asset_price(asset) == price[asset]

\* 10^decimals of an asset; every asset has the decimals of the base asset
pow10_decimals(asset) == 1

\* FixedI128::to_precision
to_precision(inner, pow10) == TruncDiv(inner * pow10, DENOMINATOR)

\* PriceProvider::convert_to_base
convert_to_base(asset, amount) ==
    IF asset = BaseAsset THEN amount
    ELSE to_precision(
            from_rational(mul_int(price[asset], amount), pow10_decimals(asset)),
            pow10_decimals(BaseAsset))

\* PriceProvider::convert_from_base; the price of an asset is never 0
convert_from_base(asset, amount) ==
    IF asset = BaseAsset THEN amount
    ELSE to_precision(
            from_rational(recip_mul_int(price[asset], amount),
                          pow10_decimals(BaseAsset)),
            pow10_decimals(asset))

(* ----------------------------- account data --------------------------- *)

\* the reserve list, in id order
ReserveList == <<0, 1, 2>>

\* ReserveData.id of the reserves of ReserveList: the index at admission
InitReserveIds == [asset \in Reserves |-> asset]

\* u8::MAX
u8_MAX == 255

\* the failure of u8::try_from
NoU8 == -1

\* u8::try_from of a length
u8_try_from(n) == IF n <= u8_MAX THEN n ELSE NoU8

RECURSIVE SumSeq(_)
\* sum of a sequence of integers
SumSeq(q) == IF q = <<>> THEN 0 ELSE Head(q) + SumSeq(Tail(q))

\* Option<AssetBalance>::None
NoBalance == [some |-> FALSE, asset |-> 0, balance |-> 0]

\* Some(AssetBalance::new(s_token_address, balance))
AssetBalance(asset, balance) == [some |-> TRUE, asset |-> asset, balance |-> balance]

\* calc_account_data, the collateral branch for reserve i
collat_leg(S, who, mb_who_balance, i) ==
    LET curr_reserve == S.reserves[i]
        coll_coeff == get_collateral_coeff(curr_reserve)
        who_balance == IF mb_who_balance.some /\ mb_who_balance.asset = i
                       THEN mb_who_balance.balance
                       ELSE S.s_balance[i][who]
        discount == from_percentage(curr_reserve.discount)
        compounded_balance == mul_int(coll_coeff, who_balance)
        compounded_balance_in_xlm == mul_int(get_asset_price(i), compounded_balance)
    IN  [asset |-> i, reserve |-> curr_reserve, s_token_balance |-> who_balance,
         comp_balance |-> compounded_balance, coeff |-> coll_coeff,
         in_base |-> mul_int(discount, compounded_balance_in_xlm)]

\* calc_account_data, the debt branch for reserve i
debt_leg(S, who, i) ==
    LET curr_reserve == S.reserves[i]
        debt_coeff == get_debt_coeff(curr_reserve)
        debt_token_balance == S.d_balance[i][who]
        compounded_balance == mul_int(debt_coeff, debt_token_balance)
    IN  [asset |-> i, reserve |-> curr_reserve,
         debt_token_balance |-> debt_token_balance,
         compounded_debt |-> compounded_balance, debt_coeff |-> debt_coeff,
         in_base |-> mul_int(get_asset_price(i), compounded_balance)]

\* order of the collateral legs: ascending (liquidation_order, asset)
collat_before(a, b) ==
    \/ a.reserve.liquidation_order < b.reserve.liquidation_order
    \/ /\ a.reserve.liquidation_order = b.reserve.liquidation_order
       /\ a.asset < b.asset

\* order of the debt legs: descending compounded debt, ties by asset
debt_before(a, b) ==
    \/ a.compounded_debt > b.compounded_debt
    \/ a.compounded_debt = b.compounded_debt /\ a.asset < b.asset

\* AccountData of an empty configuration
EmptyAccountData ==
    [err |-> "Ok", discounted_collateral |-> 0, debt |-> 0, npv |-> 0,
     liq_collats |-> <<>>, liq_debts |-> <<>>]

\* LendingPool::calc_account_data
calc_account_data(S, who, mb_who_balance, user_config_, liquidation) ==
    IF is_empty(user_config_) THEN EmptyAccountData
    ELSE IF u8_try_from(Len(reserves_vec)) = NoU8
    THEN [EmptyAccountData EXCEPT !.err = "ReservesMaxCapacityExceeded"]
    ELSE
    LET used == SelectSeq(ReserveList,
                    LAMBDA i : is_using_as_collateral_or_borrowing(user_config_, i))
        collat_ids == SelectSeq(used, LAMBDA i : is_using_as_collateral(user_config_, i))
        debt_ids == SelectSeq(used, LAMBDA i : ~is_using_as_collateral(user_config_, i)
                                               /\ is_borrowing(user_config_, i))
        collats == [k \in 1..Len(collat_ids) |->
                        collat_leg(S, who, mb_who_balance, collat_ids[k])]
        debts == [k \in 1..Len(debt_ids) |-> debt_leg(S, who, debt_ids[k])]
        total_discounted_collateral_in_xlm ==
            SumSeq([k \in 1..Len(collats) |-> collats[k].in_base])
        total_debt_in_xlm == SumSeq([k \in 1..Len(debts) |-> debts[k].in_base])
    IN  IF liquidation /\ \E k \in 1..Len(used) : ~S.reserves[used[k]].is_active
        THEN [EmptyAccountData EXCEPT !.err = "NoActiveReserve"]
        ELSE [err |-> "Ok",
              discounted_collateral |-> total_discounted_collateral_in_xlm,
              debt |-> total_debt_in_xlm,
              npv |-> total_discounted_collateral_in_xlm - total_debt_in_xlm,
              liq_collats |-> IF liquidation THEN SortSeq(collats, collat_before)
                              ELSE <<>>,
              liq_debts |-> IF liquidation THEN SortSeq(debts, debt_before)
                            ELSE <<>>]

\* AccountData::is_good_position
is_good_position(account_data) == account_data.npv > 0

\* LendingPool::get_account_position
get_account_position(S, who) ==
    calc_account_data(S, who, NoBalance, S.user_config[who], FALSE)

(* ------------------------ deposit / withdraw / borrow ----------------- *)

\* LendingPool::require_not_paused
require_not_paused == IF paused THEN "Paused" ELSE "Ok"

\* LendingPool::validate_deposit
validate_deposit(reserve, amount) ==
    IF ~(amount > 0) THEN "InvalidAmount"
    ELSE IF ~reserve.is_active THEN "NoActiveReserve"
    ELSE IF reserve.is_frozen THEN "ReserveFrozen"
    ELSE "Ok"

\* faulty variant of do_repay: the whole amount is taken from the payer,
\* whatever is owed
do_repay_whole_amount(S, who, asset, amount, reserve) ==
    LET asset_debt == S.d_balance[asset][who]
        compounded_debt == mul_int(get_debt_coeff(reserve), asset_debt)
        payback_debt == IF amount >= compounded_debt THEN asset_debt
                        ELSE recip_mul_int(get_debt_coeff(reserve), amount)
        t == token_transfer(S, asset, who, "stoken", Min(amount, S.underlying[asset][who]))
        b == debt_token_burn(t.st, asset, who, payback_debt)
    IN  IF asset_debt = 0
        THEN [err |-> "Ok", st |-> S, remaining_amount |-> amount, is_repayed |-> FALSE]
        ELSE [err |-> b.err, st |-> b.st, remaining_amount |-> 0,
              is_repayed |-> (amount >= compounded_debt)]

\* LendingPool::do_repay: (remaining amount, debt fully repayed)
do_repay(S, who, asset, amount, reserve) ==
    LET asset_debt == S.d_balance[asset][who]
        debt_coeff == get_debt_coeff(reserve)
        compounded_debt == mul_int(debt_coeff, asset_debt)
        payback_amount == Min(amount, compounded_debt)
        payback_debt == IF payback_amount = compounded_debt THEN asset_debt
                        ELSE recip_mul_int(debt_coeff, payback_amount)
        t == token_transfer(S, asset, who, "stoken", payback_amount)
        b == debt_token_burn(t.st, asset, who, payback_debt)
    IN  IF asset_debt = 0
        THEN [err |-> "Ok", st |-> S, remaining_amount |-> amount, is_repayed |-> FALSE]
        ELSE IF t.err # "Ok"
        THEN [err |-> t.err, st |-> S, remaining_amount |-> 0, is_repayed |-> FALSE]
        ELSE IF b.err # "Ok"
        THEN [err |-> b.err, st |-> S, remaining_amount |-> 0, is_repayed |-> FALSE]
        ELSE [err |-> "Ok", st |-> b.st,
              remaining_amount |-> Max(amount - payback_amount, 0),
              is_repayed |-> (compounded_debt = payback_amount)]

\* LendingPool::do_deposit: is this the user's first deposit
do_deposit(S, who, asset, amount, reserve) ==
    LET collat_coeff == get_collateral_coeff(reserve)
        is_first_deposit == S.s_balance[asset][who] = 0
        amount_to_mint == recip_mul_int(collat_coeff, amount)
        t == token_transfer(S, asset, who, "stoken", amount)
        m == s_token_mint(t.st, asset, who, amount_to_mint)
    IN  IF amount = 0 THEN [err |-> "Ok", st |-> S, is_first_deposit |-> FALSE]
        ELSE IF t.err # "Ok" THEN [err |-> t.err, st |-> S, is_first_deposit |-> FALSE]
        ELSE IF m.err # "Ok" THEN [err |-> m.err, st |-> S, is_first_deposit |-> FALSE]
        ELSE [err |-> "Ok", st |-> m.st, is_first_deposit |-> is_first_deposit]

\* LendingPool::deposit
deposit(S, who, asset, amount) ==
    LET S1 == get_actual_reserve_data(S, asset)
        reserve == S1.reserves[asset]
        v == validate_deposit(reserve, amount)
        r == do_repay(S1, who, asset, amount, reserve)
        d == do_deposit(r.st, who, asset, r.remaining_amount, reserve)
        limit == pool_config.user_assets_limit
        c0 == d.st.user_config[who]
        c1 == IF r.is_repayed THEN set_borrowing(c0, asset, FALSE, limit)
              ELSE [err |-> "Ok", cfg |-> c0]
        c2 == IF d.is_first_deposit
              THEN set_using_as_collateral(c1.cfg, asset, TRUE, limit)
              ELSE c1
    IN  IF require_not_paused # "Ok" THEN Result(require_not_paused, S)
        ELSE IF v # "Ok" THEN Result(v, S)
        ELSE IF r.err # "Ok" THEN Result(r.err, S)
        ELSE IF d.err # "Ok" THEN Result(d.err, S)
        ELSE IF ~(r.is_repayed \/ d.is_first_deposit) THEN Result("Ok", d.st)
        ELSE IF c1.err # "Ok" THEN Result(c1.err, S)
        ELSE IF c2.err # "Ok" THEN Result(c2.err, S)
        ELSE Result("Ok", [d.st EXCEPT !.user_config[who] = c2.cfg])

\* faulty variant of repay: what is left of the amount once the debt is paid
\* is deposited
repay_and_deposit(S, who, asset, amount) == deposit(S, who, asset, amount)

\* LendingPool::repay: the prologue of every entry point, then do_repay; what
\* is left of the amount once the debt is paid stays with the payer
repay(S, who, asset, amount) ==
    LET S1 == get_actual_reserve_data(S, asset)
        reserve == S1.reserves[asset]
        r == do_repay(S1, who, asset, amount, reserve)
        c == set_borrowing(r.st.user_config[who], asset, FALSE,
                           pool_config.user_assets_limit)
    IN  IF require_not_paused # "Ok" THEN Result(require_not_paused, S)
        ELSE IF r.err # "Ok" THEN Result(r.err, S)
        ELSE IF ~r.is_repayed THEN Result("Ok", r.st)
        ELSE IF c.err # "Ok" THEN Result(c.err, S)
        ELSE Result("Ok", [r.st EXCEPT !.user_config[who] = c.cfg])

\* LendingPool::validate_withdraw
validate_withdraw(S, who, reserve, user_config_, amount, balance) ==
    LET account_data == calc_account_data(S, who, NoBalance, user_config_, FALSE)
    IN  IF ~(amount > 0) THEN "InvalidAmount"
        ELSE IF ~reserve.is_active THEN "NoActiveReserve"
        ELSE IF ~(amount <= balance) THEN "NotEnoughAvailableUserBalance"
        ELSE IF account_data.err = "Ok" /\ ~is_good_position(account_data)
        THEN "BadPosition"
        ELSE "Ok"

\* LendingPool::withdraw
withdraw(S, who, asset, amount, to) ==
    LET S1 == get_actual_reserve_data(S, asset)
        reserve == S1.reserves[asset]
        who_balance == S1.s_balance[asset][who]
        amount_to_withdraw == IF amount = I128_MAX THEN who_balance ELSE amount
        user_config_ == S1.user_config[who]
        v == validate_withdraw(S1, who, reserve, user_config_, amount_to_withdraw,
                               who_balance)
        c == set_using_as_collateral(user_config_, asset, FALSE,
                                     pool_config.user_assets_limit)
        S2 == IF amount_to_withdraw = who_balance
              THEN [S1 EXCEPT !.user_config[who] = c.cfg]
              ELSE S1
        amount_to_burn == recip_mul_int(get_collateral_coeff(reserve), amount_to_withdraw)
        b == s_token_burn(S2, asset, who, amount_to_burn, amount_to_withdraw, to)
    IN  IF require_not_paused # "Ok" THEN Result(require_not_paused, S)
        ELSE IF ~user_config_.exists THEN Result("UserConfigNotExists", S)
        ELSE IF v # "Ok" THEN Result(v, S)
        ELSE IF b.err # "Ok" THEN Result(b.err, S)
        ELSE Result("Ok", b.st)

\* LendingPool::require_good_position
require_good_position(account_data) ==
    IF is_good_position(account_data) THEN "Ok" ELSE "BadPosition"

\* LendingPool::validate_borrow
validate_borrow(S, who, asset, reserve, user_config_, amount_to_borrow) ==
    LET amount_in_xlm == mul_int(get_asset_price(asset), amount_to_borrow)
        account_data == calc_account_data(S, who, NoBalance, user_config_, FALSE)
    IN  IF ~(amount_to_borrow > 0 /\ amount_in_xlm > 0) THEN "InvalidAmount"
        ELSE IF ~reserve.is_active THEN "NoActiveReserve"
        ELSE IF reserve.is_frozen THEN "ReserveFrozen"
        ELSE IF ~reserve.borrowing_enabled THEN "BorrowingNotEnabled"
        ELSE IF account_data.err # "Ok" THEN account_data.err
        ELSE IF ~(account_data.npv >= amount_in_xlm) THEN "CollateralNotCoverNewBorrow"
        ELSE require_good_position(account_data)

\* LendingPool::borrow
borrow(S, who, asset, amount) ==
    LET S1 == get_actual_reserve_data(S, asset)
        reserve == S1.reserves[asset]
        user_config_ == S1.user_config[who]
        v == validate_borrow(S1, who, asset, reserve, user_config_, amount)
        is_first_borrowing == S1.d_balance[asset][who] = 0
        m == debt_token_mint(S1, asset, who, amount)
        c == IF is_first_borrowing
             THEN set_borrowing(user_config_, asset, TRUE, pool_config.user_assets_limit)
             ELSE [err |-> "Ok", cfg |-> user_config_]
        S2 == [m.st EXCEPT !.user_config[who] = c.cfg]
        t == transfer_underlying_to(S2, asset, who, amount)
    IN  IF require_not_paused # "Ok" THEN Result(require_not_paused, S)
        ELSE IF ~user_config_.exists THEN Result("UserConfigNotExists", S)
        ELSE IF v # "Ok" THEN Result(v, S)
        ELSE IF m.err # "Ok" THEN Result(m.err, S)
        ELSE IF c.err # "Ok" THEN Result(c.err, S)
        ELSE IF t.err # "Ok" THEN Result(t.err, S)
        ELSE Result("Ok", t.st)

(* ----------------------------- s-token transfer ----------------------- *)

\* LendingPool::finalize_transfer, called by the s-token after it moved the
\* balances
finalize_transfer(S, asset, from, to, amount, balance_from_before, balance_to_before) ==
    LET S1 == get_actual_reserve_data(S, asset)
        balance_from_after == balance_from_before - amount
        from_config == S1.user_config[from]
        account_data == calc_account_data(S1, from,
                            AssetBalance(asset, balance_from_after), from_config, FALSE)
        limit == pool_config.user_assets_limit
        c1 == set_using_as_collateral(from_config, asset, FALSE, limit)
        S2 == IF balance_from_before - amount = 0
              THEN [S1 EXCEPT !.user_config[from] = c1.cfg]
              ELSE S1
        to_receives == balance_to_before = 0 /\ amount # 0
        c2 == set_using_as_collateral(S2.user_config[to], asset, TRUE, limit)
    IN  IF require_not_paused # "Ok" THEN Result(require_not_paused, S)
        ELSE IF ~from_config.exists THEN Result("UserConfigNotExists", S)
        ELSE IF account_data.err # "Ok" THEN Result(account_data.err, S)
        ELSE IF ~is_good_position(account_data) THEN Result("BadPosition", S)
        ELSE IF from = to THEN Result("Ok", S1)
        ELSE IF ~to_receives THEN Result("Ok", S2)
        ELSE IF ~S2.user_config[to].exists THEN Result("UserConfigNotExists", S)
        ELSE IF c2.err # "Ok" THEN Result(c2.err, S)
        ELSE Result("Ok", [S2 EXCEPT !.user_config[to] = c2.cfg])

\* SToken::transfer -> do_transfer with validation
s_token_transfer(S, asset, from, to, amount) ==
    LET from_balance_prev == S.s_balance[asset][from]
        to_balance_prev == S.s_balance[asset][to]
        m == s_token_move(S, asset, from, to, amount)
        f == finalize_transfer(m.st, asset, from, to, amount, from_balance_prev,
                               to_balance_prev)
    IN  IF m.err # "Ok" THEN Result(m.err, S)
        ELSE IF f.err # "Ok" THEN Result(f.err, S)
        ELSE Result("Ok", f.st)

(* ------------------------------ liquidation --------------------------- *)

\* UserConfigurator::deposit
configurator_deposit(cfg, reserve_id, is_first_deposit, limit) ==
    IF ~is_first_deposit THEN [err |-> "Ok", cfg |-> cfg]
    ELSE set_using_as_collateral(cfg, reserve_id, TRUE, limit)

\* UserConfigurator::repay
configurator_repay(cfg, reserve_id, is_repayed, limit) ==
    IF ~is_repayed THEN [err |-> "Ok", cfg |-> cfg]
    ELSE set_borrowing(cfg, reserve_id, FALSE, limit)

\* faulty variant: the running values never record the break of the
\* collateral loop
LiqAcc_without_break(e, S, debt_after, collat_after, to_cover, stop, cfg, dirty) ==
    [err |-> e, st |-> S, total_debt_after_in_base |-> debt_after,
     total_collat_disc_after_in_base |-> collat_after,
     total_debt_to_cover_in_base |-> to_cover, stop |-> FALSE,
     who_config |-> cfg, should_write |-> dirty]

\* the running values of liquidate: the error so far, the storage, the three
\* running totals, whether the collateral loop has hit its break, and the
\* borrower's configuration held by user_configurator
LiqAcc(e, S, debt_after, collat_after, to_cover, stop, cfg, dirty) ==
    [err |-> e, st |-> S, total_debt_after_in_base |-> debt_after,
     total_collat_disc_after_in_base |-> collat_after,
     total_debt_to_cover_in_base |-> to_cover, stop |-> stop,
     who_config |-> cfg, should_write |-> dirty]

\* faulty variant: an iteration that fails is skipped
LiqFail_skipped(acc, e) == acc

\* an iteration that fails
LiqFail(acc, e) == [acc EXCEPT !.err = e]

\* liquidate, one iteration of the loop over liquidation_collat
liquidate_collat(acc, collat, liquidator, who, receive_stoken, initial_health, liq_bonus) ==
    LET S == acc.st
        asset == collat.asset
        hundred_percent == from_percentage(PERCENTAGE_FACTOR)
        total_debt_liq_bonus == hundred_percent - liq_bonus
        discount == from_percentage(collat.reserve.discount)
        safe_collat_in_base ==
            mul_int(hundred_percent - initial_health, acc.total_collat_disc_after_in_base)
                - acc.total_debt_after_in_base
        safe_discount_level == checked_mul(discount, initial_health)
        safe_discount == discount + liq_bonus - hundred_percent - safe_discount_level
        liq_comp_amount0 == convert_from_base(asset, safe_collat_in_base)
        liq_comp_amount == recip_mul_int(safe_discount, liq_comp_amount0)
        liq_max_comp_amount == IF liq_comp_amount < 0 THEN collat.comp_balance
                               ELSE Min(collat.comp_balance, liq_comp_amount)
        total_sub_comp_amount == mul_int(discount, liq_max_comp_amount)
        total_sub_amount_in_base == convert_to_base(asset, total_sub_comp_amount)
        debt_comp_amount == mul_int(total_debt_liq_bonus, liq_max_comp_amount)
        debt_in_base == convert_to_base(asset, debt_comp_amount)
        debt_after == acc.total_debt_after_in_base - debt_in_base
        collat_after == acc.total_collat_disc_after_in_base - total_sub_amount_in_base
        npv_after == collat_after - debt_after
        s_token_supply == S.token_total_supply.s[asset]
        liq_lp_amount == recip_mul_int(collat.coeff, liq_max_comp_amount)
        \* receive_stoken
        liquidator_config == S.user_config[liquidator]
        liquidator_collat_before == S.token_balance.s[asset][liquidator]
        mv == s_token_move(S, asset, who, liquidator, liq_lp_amount)
        dep == configurator_deposit(mv.st.user_config[liquidator], asset,
                                    liquidator_collat_before = 0,
                                    pool_config.user_assets_limit)
        S_recv == [mv.st EXCEPT
                     !.token_balance.s[asset][liquidator] =
                         liquidator_collat_before + liq_lp_amount,
                     !.user_config[liquidator] = dep.cfg]
        \* receive underlying
        bn == s_token_burn(S, asset, who, liq_lp_amount, liq_max_comp_amount, liquidator)
        S_burn == [bn.st EXCEPT
                     !.stoken_underlying_balance[asset] = @ - liq_lp_amount,
                     !.token_total_supply.s[asset] = s_token_supply - liq_lp_amount]
        S_after == recalculate_reserve_data(IF receive_stoken THEN S_recv ELSE S_burn,
                                            asset)
    IN  IF safe_discount = 0 THEN LiqFail(acc, "CalcAccountDataMathError")
        ELSE IF receive_stoken /\ is_borrowing(liquidator_config, asset)
        THEN LiqFail(acc, "MustNotHaveDebt")
        ELSE IF receive_stoken /\ mv.err # "Ok" THEN LiqFail(acc, mv.err)
        ELSE IF receive_stoken /\ dep.err # "Ok" THEN LiqFail(acc, dep.err)
        ELSE IF ~receive_stoken /\ bn.err # "Ok" THEN LiqFail(acc, bn.err)
        ELSE LiqAcc("Ok", S_after, debt_after, collat_after,
                    acc.total_debt_to_cover_in_base + debt_in_base,
                    npv_after > 0, acc.who_config, acc.should_write)

\* liquidate, one iteration of the loop over liquidation_debt
liquidate_debt(acc, debt, liquidator, who) ==
    LET S == acc.st
        asset == debt.asset
        to_cover == acc.total_debt_to_cover_in_base
        compounded_debt_in_base == convert_to_base(asset, debt.compounded_debt)
        full == to_cover >= compounded_debt_in_base
        rp == configurator_repay(acc.who_config, asset, TRUE,
                                 pool_config.user_assets_limit)
        compounded_debt == convert_from_base(asset, to_cover)
        debt_to_burn == recip_mul_int(debt.debt_coeff, compounded_debt)
        debt_amount_to_burn == IF full THEN debt.debt_token_balance ELSE debt_to_burn
        underlying_amount_to_transfer == IF full THEN debt.compounded_debt
                                         ELSE compounded_debt
        t == token_transfer(S, asset, liquidator, "stoken", underlying_amount_to_transfer)
        b == debt_token_burn(t.st, asset, who, debt_amount_to_burn)
        S1 == [b.st EXCEPT
                 !.stoken_underlying_balance[asset] = @ + underlying_amount_to_transfer,
                 !.token_total_supply.d[asset] = @ - debt_amount_to_burn,
                 !.token_balance.d[asset][who] =
                     debt.debt_token_balance - debt_amount_to_burn]
    IN  IF to_cover = 0 THEN [acc EXCEPT !.stop = TRUE]
        ELSE IF full /\ rp.err # "Ok" THEN LiqFail(acc, rp.err)
        ELSE IF t.err # "Ok" THEN LiqFail(acc, t.err)
        ELSE IF b.err # "Ok" THEN LiqFail(acc, b.err)
        ELSE LiqAcc("Ok", recalculate_reserve_data(S1, asset),
                    acc.total_debt_after_in_base, acc.total_collat_disc_after_in_base,
                    IF full THEN to_cover - compounded_debt_in_base ELSE 0,
                    FALSE,
                    IF full THEN rp.cfg ELSE acc.who_config,
                    acc.should_write \/ full)

RECURSIVE liquidate_collats(_, _, _, _, _, _, _)
\* liquidate, the loop over liquidation_collat with its break
liquidate_collats(acc, legs, liquidator, who, receive_stoken, initial_health, liq_bonus) ==
    IF legs = <<>> \/ acc.err # "Ok" \/ acc.stop THEN acc
    ELSE Then(liquidate_collat(acc, Head(legs), liquidator, who, receive_stoken,
                               initial_health, liq_bonus),
              LAMBDA a : liquidate_collats(a, Tail(legs), liquidator, who,
                                           receive_stoken, initial_health, liq_bonus))

RECURSIVE liquidate_debts_last_first(_, _, _, _)
\* faulty variant: the loop over liquidation_debt takes the legs from the
\* last one to the first
liquidate_debts_last_first(acc, legs, liquidator, who) ==
    IF legs = <<>> \/ acc.err # "Ok" \/ acc.stop THEN acc
    ELSE Then(liquidate_debt(acc, legs[Len(legs)], liquidator, who),
              LAMBDA a : liquidate_debts_last_first(a, SubSeq(legs, 1, Len(legs) - 1),
                                                    liquidator, who))

RECURSIVE liquidate_debts(_, _, _, _)
\* liquidate, the loop over liquidation_debt with its break
liquidate_debts(acc, legs, liquidator, who) ==
    IF legs = <<>> \/ acc.err # "Ok" \/ acc.stop THEN acc
    ELSE Then(liquidate_debt(acc, Head(legs), liquidator, who),
              LAMBDA a : liquidate_debts(a, Tail(legs), liquidator, who))

\* faulty variant: liq_bonus keeps the sign of npv
calc_liq_bonus_signed(account_data) ==
    LET npv_percent == from_rational(account_data.npv, account_data.discounted_collateral)
    IN  Min(Min(npv_percent, 0), from_percentage(PERCENTAGE_FACTOR))

\* liquidate: liq_bonus = min(|min(npv / discounted_collateral, 0)|, 100%)
calc_liq_bonus(account_data) ==
    LET npv_percent == from_rational(account_data.npv, account_data.discounted_collateral)
    IN  Min(Abs(Min(npv_percent, 0)), from_percentage(PERCENTAGE_FACTOR))

\* faulty variant: the collateral is handed over as s-tokens whatever
\* receive_stoken says
liquidate_legs_in_stoken(S, liquidator, who, receive_stoken, account_data) ==
    Then(liquidate_collats(
            LiqAcc("Ok", S, account_data.debt, account_data.discounted_collateral,
                   0, FALSE, S.user_config[who], FALSE),
            account_data.liq_collats, liquidator, who, TRUE,
            from_percentage(pool_config.initial_health), calc_liq_bonus(account_data)),
         LAMBDA acc1 :
            IF acc1.err # "Ok" THEN Result(acc1.err, S)
            ELSE Then(liquidate_debts([acc1 EXCEPT !.stop = FALSE],
                                      account_data.liq_debts, liquidator, who),
                      LAMBDA acc2 :
                         IF acc2.err # "Ok" THEN Result(acc2.err, S)
                         ELSE IF acc2.should_write
                         THEN Result("Ok", [acc2.st EXCEPT
                                               !.user_config[who] = acc2.who_config])
                         ELSE Result("Ok", acc2.st)))

\* liquidate, from the two loops on: the position is bad and has legs
liquidate_legs(S, liquidator, who, receive_stoken, account_data) ==
    Then(liquidate_collats(
            LiqAcc("Ok", S, account_data.debt, account_data.discounted_collateral,
                   0, FALSE, S.user_config[who], FALSE),
            account_data.liq_collats, liquidator, who, receive_stoken,
            from_percentage(pool_config.initial_health), calc_liq_bonus(account_data)),
         LAMBDA acc1 :
            IF acc1.err # "Ok" THEN Result(acc1.err, S)
            ELSE Then(liquidate_debts([acc1 EXCEPT !.stop = FALSE],
                                      account_data.liq_debts, liquidator, who),
                      LAMBDA acc2 :
                         IF acc2.err # "Ok" THEN Result(acc2.err, S)
                         ELSE IF acc2.should_write
                         THEN Result("Ok", [acc2.st EXCEPT
                                               !.user_config[who] = acc2.who_config])
                         ELSE Result("Ok", acc2.st)))

\* liquidate_position, a zero discounted collateral reported as an error of
\* the liquidation rather than of the account data
liquidate_position_zero_as_liquidate_error(S, liquidator, who, receive_stoken, account_data) ==
    IF account_data.err # "Ok" THEN Result(account_data.err, S)
    ELSE IF is_good_position(account_data) THEN Result("GoodPosition", S)
    ELSE IF ~(Len(account_data.liq_collats) > 0 /\ Len(account_data.liq_debts) > 0)
    THEN Result("LiquidateMathError", S)
    ELSE IF account_data.discounted_collateral = 0
    THEN Result("LiquidateMathError", S)
    ELSE liquidate_legs(S, liquidator, who, receive_stoken, account_data)

\* liquidate, the checks on the borrower's account data
liquidate_position(S, liquidator, who, receive_stoken, account_data) ==
    IF account_data.err # "Ok" THEN Result(account_data.err, S)
    ELSE IF is_good_position(account_data) THEN Result("GoodPosition", S)
    ELSE IF ~(Len(account_data.liq_collats) > 0 /\ Len(account_data.liq_debts) > 0)
    THEN Result("LiquidateMathError", S)
    ELSE IF account_data.discounted_collateral = 0
    THEN Result("CalcAccountDataMathError", S)
    ELSE liquidate_legs(S, liquidator, who, receive_stoken, account_data)

\* methods::liquidate
liquidate(S, liquidator, who, receive_stoken) ==
    IF require_not_paused # "Ok" THEN Result(require_not_paused, S)
    ELSE IF ~S.user_config[who].exists THEN Result("UserConfigNotExists", S)
    ELSE Then(calc_account_data(S, who, NoBalance, S.user_config[who], TRUE),
              LAMBDA account_data :
                 liquidate_position(S, liquidator, who, receive_stoken, account_data))

(* ------------------------------- flash loan --------------------------- *)

\* utilization of a reserve: compounded debt over compounded debt plus the
\* underlying the s-token holds
utilization(S, asset) ==
    LET total_debt == mul_int(get_debt_coeff(S.reserves[asset]), S.d_supply[asset])
        available == S.underlying[asset]["stoken"]
    IN  IF total_debt + available = 0 THEN 0
        ELSE from_rational(total_debt, total_debt + available)

\* the borrow admission rule on the balances after the borrow: the position is
\* good and npv >= initial_health * discounted_collateral
covers_new_borrow(account_data) ==
    /\ is_good_position(account_data)
    /\ account_data.npv >= mul_int(from_percentage(pool_config.initial_health),
                                   account_data.discounted_collateral)

\* borrow::do_borrow as flash_loan uses it: the underlying is already with
\* the receiver
do_borrow(S, who, asset, reserve, amount) ==
    LET user_config_ == S.user_config[who]
        debt_coeff == get_debt_coeff(reserve)
        amount_of_debt_token == recip_mul_int(debt_coeff, amount)
        is_first_borrowing == S.d_balance[asset][who] = 0
        m == debt_token_mint(S, asset, who, amount_of_debt_token)
        c == IF is_first_borrowing
             THEN set_borrowing(user_config_, asset, TRUE, pool_config.user_assets_limit)
             ELSE [err |-> "Ok", cfg |-> user_config_]
        S1 == [m.st EXCEPT !.user_config[who] = c.cfg]
        account_data == calc_account_data(S1, who, NoBalance, c.cfg, FALSE)
    IN  IF ~(amount > 0) THEN Result("InvalidAmount", S)
        ELSE IF ~reserve.is_active THEN Result("NoActiveReserve", S)
        ELSE IF reserve.is_frozen THEN Result("ReserveFrozen", S)
        ELSE IF ~reserve.borrowing_enabled THEN Result("BorrowingNotEnabled", S)
        ELSE IF ~user_config_.exists THEN Result("UserConfigNotExists", S)
        ELSE IF is_using_as_collateral(user_config_, asset)
        THEN Result("BorrowCollateralSameAsset", S)
        ELSE IF m.err # "Ok" THEN Result(m.err, S)
        ELSE IF utilization(S1, asset) > from_percentage(reserve.util_cap)
        THEN Result("UtilizationCapExceeded", S)
        ELSE IF c.err # "Ok" THEN Result(c.err, S)
        ELSE IF ~covers_new_borrow(account_data)
        THEN Result("CollateralNotCoverNewBorrow", S)
        ELSE IF account_data.debt < pool_config.min_debt_amount
        THEN Result("DebtLtMinPositionAmount", S)
        ELSE Result("Ok", S1)

\* a FlashLoanAsset
FlashLoanAsset(asset, amount, borrow_) == [asset |-> asset, amount |-> amount, borrow |-> borrow_]

\* flash_loan, one iteration of the first loop
flash_loan_send_one(S, loan_asset, receiver) ==
    IF ~(loan_asset.amount > 0) THEN Result("InvalidAmount", S)
    ELSE IF ~S.reserves[loan_asset.asset].is_active THEN Result("NoActiveReserve", S)
    ELSE IF ~S.reserves[loan_asset.asset].borrowing_enabled
    THEN Result("BorrowingNotEnabled", S)
    ELSE transfer_underlying_to(S, loan_asset.asset, receiver, loan_asset.amount)

RECURSIVE flash_loan_send(_, _, _)
\* flash_loan, the first loop: hands every amount to the receiver
flash_loan_send(r, loan_assets, receiver) ==
    IF loan_assets = <<>> \/ r.err # "Ok" THEN r
    ELSE Then(flash_loan_send_one(r.st, Head(loan_assets), receiver),
              LAMBDA r1 : flash_loan_send(r1, Tail(loan_assets), receiver))

\* faulty variant of flash_loan_settle_one: the premium is left with the
\* s-token
flash_loan_settle_one_no_fee(S, loan_asset, who, receiver, reserves0) ==
    IF ~loan_asset.borrow
    THEN token_transfer(S, loan_asset.asset, receiver, "stoken",
            loan_asset.amount
                + mul_int(from_percentage(pool_config.flash_loan_fee), loan_asset.amount))
    ELSE Then(do_borrow(S, who, loan_asset.asset, reserves0[loan_asset.asset],
                        loan_asset.amount),
              LAMBDA b : IF b.err # "Ok" THEN b
                         ELSE Result("Ok", recalculate_reserve(b.st, loan_asset.asset,
                                                               reserves0[loan_asset.asset])))

\* flash_loan, one iteration of the second loop: the leg is paid back with
\* its premium or turned into a debt of the caller
flash_loan_settle_one(S, loan_asset, who, receiver, reserves0) ==
    LET asset == loan_asset.asset
        premium == mul_int(from_percentage(pool_config.flash_loan_fee), loan_asset.amount)
        t1 == token_transfer(S, asset, receiver, "stoken", loan_asset.amount + premium)
        t2 == transfer_underlying_to(t1.st, asset, "treasury", premium)
        b == do_borrow(S, who, asset, reserves0[asset], loan_asset.amount)
    IN  IF ~loan_asset.borrow
        THEN (IF t1.err # "Ok" THEN t1 ELSE t2)
        ELSE (IF b.err # "Ok" THEN b
              ELSE Result("Ok", recalculate_reserve(b.st, asset, reserves0[asset])))

RECURSIVE flash_loan_settle(_, _, _, _, _)
\* flash_loan, the second loop; reserves0 are the reserves as read in the
\* first loop
flash_loan_settle(r, loan_assets, who, receiver, reserves0) ==
    IF loan_assets = <<>> \/ r.err # "Ok" THEN r
    ELSE Then(flash_loan_settle_one(r.st, Head(loan_assets), who, receiver, reserves0),
              LAMBDA r1 : flash_loan_settle(r1, Tail(loan_assets), who, receiver,
                                            reserves0))

\* faulty variant of flash_loan: a failure after the first loop leaves what
\* the call has done so far
flash_loan_not_reverted(S, who, receiver, loan_assets, loan_received) ==
    Then(flash_loan_send(Result("Ok", S), loan_assets, receiver),
         LAMBDA sent :
            IF sent.err # "Ok" THEN Result(sent.err, S)
            ELSE IF ~loan_received THEN Result("FlashLoanReceiverError", sent.st)
            ELSE flash_loan_settle(sent, loan_assets, who, receiver, S.reserves))

\* methods::flash_loan; loan_received is the receiver's answer
flash_loan(S, who, receiver, loan_assets, loan_received) ==
    IF require_not_paused # "Ok" THEN Result(require_not_paused, S)
    ELSE IF ~(Len(loan_assets) > 0) THEN Result("MustBePositive", S)
    ELSE Then(flash_loan_send(Result("Ok", S), loan_assets, receiver),
              LAMBDA sent :
                 IF sent.err # "Ok" THEN Result(sent.err, S)
                 ELSE IF ~loan_received THEN Result("FlashLoanReceiverError", S)
                 ELSE Then(flash_loan_settle(sent, loan_assets, who, receiver,
                                             S.reserves),
                           LAMBDA settled :
                              IF settled.err # "Ok" THEN Result(settled.err, S)
                              ELSE Result("Ok", settled.st)))

(* ------------------------------ the pool ------------------------------ *)

\* ReserveData after init_reserve and configure_as_collateral
InitReserve(discount, liquidation_order) ==
    [collat_accrued_rate |-> ONE, debt_accrued_rate |-> ONE,
     lend_ir |-> 0, debt_ir |-> 0, last_update_timestamp |-> 0,
     is_active |-> TRUE, is_frozen |-> FALSE, borrowing_enabled |-> TRUE,
     reserve_type |-> "Fungible",
     discount |-> discount, liquidation_order |-> liquidation_order,
     util_cap |-> 5000]

\* the lender's configuration: every reserve is collateral
LenderConfig ==
    [exists |-> TRUE, collateral |-> Reserves, borrowing |-> {},
     total_assets |-> Cardinality(Reserves)]

\* The storage after initialize, three init_reserve calls and the lender's
\* deposits of Liquidity into every reserve.
InitStorage ==
    [underlying |-> [r \in Reserves |-> [h \in Holders |->
            IF h \in Users THEN UserFunds
            ELSE IF h = "stoken" THEN Liquidity
            ELSE IF h = "receiver" THEN ReceiverFunds
            ELSE 0]],
     s_balance |-> [r \in Reserves |-> [u \in Accounts |->
            IF u = "lender" THEN Liquidity ELSE 0]],
     s_supply |-> [r \in Reserves |-> Liquidity],
     d_balance |-> [r \in Reserves |-> [u \in Accounts |-> 0]],
     d_supply |-> [r \in Reserves |-> 0],
     token_balance |-> [s |-> [r \in Reserves |-> [u \in Accounts |-> 0]],
                        d |-> [r \in Reserves |-> [u \in Accounts |-> 0]]],
     token_total_supply |-> [s |-> [r \in Reserves |-> 0],
                             d |-> [r \in Reserves |-> 0]],
     stoken_underlying_balance |-> [r \in Reserves |-> 0],
     user_config |-> [u \in Accounts |->
            IF u = "lender" THEN LenderConfig ELSE NoConfig],
     reserves |-> [r \in Reserves |->
            IF r = 0 THEN InitReserve(6000, 1)
            ELSE IF r = 1 THEN InitReserve(8000, 2)
            ELSE InitReserve(6000, 1)]]

\* PoolConfig after initialize
InitPoolConfig ==
    [user_assets_limit |-> 3, initial_health |-> 0, flash_loan_fee |-> 100,
     min_debt_amount |-> 0, liquidation_protocol_fee |-> 1000]

\* the permissions of the permission table; Permission is the permission to
\* grant and revoke permissions
Permissions == {"Permission", "SetPause", "SetPoolConfiguration"}

\* the addresses that call the pool, in the order of a sorted Vec<Address>
AddressList == <<"borrower", "lender", "liquidator">>

address_lt(a, b) ==
    \E i, j \in 1..Len(AddressList) : AddressList[i] = a /\ AddressList[j] = b /\ i < j

\* the result of Vec::binary_search: Ok(idx) or Err(idx), idx counted from 0
Found(idx) == [ok |-> TRUE, idx |-> idx]

NotFound(idx) == [ok |-> FALSE, idx |-> idx]

RECURSIVE binary_search_in(_, _, _, _)
\* Vec::binary_search over the elements lo..hi-1
binary_search_in(v, x, lo, hi) ==
    IF lo >= hi THEN NotFound(lo)
    ELSE IF v[(lo + hi) \div 2 + 1] = x THEN Found((lo + hi) \div 2)
    ELSE IF address_lt(v[(lo + hi) \div 2 + 1], x)
    THEN binary_search_in(v, x, (lo + hi) \div 2 + 1, hi)
    ELSE binary_search_in(v, x, lo, (lo + hi) \div 2)

binary_search(v, x) == binary_search_in(v, x, 0, Len(v))

\* Vec::remove(idx) and Vec::insert(idx, x), idx counted from 0
vec_remove(v, idx) == SubSeq(v, 1, idx) \o SubSeq(v, idx + 2, Len(v))

vec_insert(v, idx, x) == SubSeq(v, 1, idx) \o <<x>> \o SubSeq(v, idx + 1, Len(v))

\* the result of a call on the permission table
PermResult(e, owners) == [err |-> e, owners |-> owners]

\* validation::require_permission
require_permission(owners, who, permission) ==
    IF binary_search(owners[permission], who).ok THEN "Ok" ELSE "NoPermissioned"

\* methods::grant_permission
grant_permission(owners, who, receiver, permission) ==
    IF require_permission(owners, who, "Permission") # "Ok"
    THEN PermResult(require_permission(owners, who, "Permission"), owners)
    ELSE IF binary_search(owners[permission], receiver).ok THEN PermResult("Ok", owners)
    ELSE PermResult("Ok",
            [owners EXCEPT ![permission] =
                vec_insert(@, binary_search(@, receiver).idx, receiver)])

\* faulty variant: the last holder of Permission can be revoked
revoke_permission_of_last(owners, who, owner, permission) ==
    IF require_permission(owners, who, "Permission") # "Ok"
    THEN PermResult(require_permission(owners, who, "Permission"), owners)
    ELSE IF binary_search(owners[permission], owner).ok
    THEN PermResult("Ok",
            [owners EXCEPT ![permission] = vec_remove(@, binary_search(@, owner).idx)])
    ELSE PermResult("Ok", owners)

\* methods::revoke_permission
revoke_permission(owners, who, owner, permission) ==
    IF require_permission(owners, who, "Permission") # "Ok"
    THEN PermResult(require_permission(owners, who, "Permission"), owners)
    ELSE IF permission = "Permission" /\ Len(owners[permission]) = 1
    THEN PermResult("NoPermissioned", owners)
    ELSE IF binary_search(owners[permission], owner).ok
    THEN PermResult("Ok",
            [owners EXCEPT ![permission] = vec_remove(@, binary_search(@, owner).idx)])
    ELSE PermResult("Ok", owners)

\* PermissionOwners after initialize: the admin holds every permission
InitPermissionOwners == [p \in Permissions |-> <<"lender">>]


\* no pause has been lifted yet
NoTime == -1

\* the variables that are not storage of the pool or of a token
InitEnv ==
    /\ price = [r \in Reserves |-> ONE]
    /\ feed_twaps = <<ONE>>
    /\ provider_prices = NoPrices
    /\ reserves_vec = ReserveList
    /\ reserve_ids = InitReserveIds
    /\ now = 0
    /\ paused = FALSE
    /\ unpaused_at = NoTime
    /\ permission_owners = InitPermissionOwners
    /\ ops = 0
    /\ last = [op |-> "init", err |-> "Ok", who |-> "lender", by |-> "lender",
               asset |-> 0]

\* the storage is S
Storage(S) ==
    /\ underlying = S.underlying
    /\ s_balance = S.s_balance
    /\ s_supply = S.s_supply
    /\ d_balance = S.d_balance
    /\ d_supply = S.d_supply
    /\ token_balance = S.token_balance
    /\ token_total_supply = S.token_total_supply
    /\ stoken_underlying_balance = S.stoken_underlying_balance
    /\ user_config = S.user_config
    /\ reserves = S.reserves

\* The funded pool before any user has invoked it.
PoolInit ==
    /\ pool_config = InitPoolConfig
    /\ InitEnv
    /\ Storage(InitStorage)

\* The funded pool about to take the three invocations by which the borrower
\* builds a position with two collateral legs.
LiqInit ==
    /\ \E health \in InitialHealths :
          pool_config = [InitPoolConfig EXCEPT !.initial_health = health]
    /\ price = [r \in Reserves |-> ONE]
    /\ feed_twaps = <<ONE>>
    /\ provider_prices = NoPrices
    /\ reserves_vec = ReserveList
    /\ reserve_ids = InitReserveIds
    /\ now = 0
    /\ paused = FALSE
    /\ unpaused_at = NoTime
    /\ permission_owners = InitPermissionOwners
    /\ ops = MaxOps - LiqOps
    /\ last = [op |-> "open", err |-> "Ok", who |-> "borrower", by |-> "borrower",
               asset |-> 0]
    /\ Storage(InitStorage)

\* The pool takes another invocation.  A failed invocation leaves the
\* storage as it was, so a run is not continued past it: whatever follows it
\* also follows the state it was made in.
Open == ops < MaxOps /\ last.err = "Ok" /\ last.op # "open"

\* An invocation with result r: a successful one commits its storage, a
\* failed one leaves the storage as it was.
Invoke(op, by, who, asset, result) ==
    /\ Open
    /\ \E r \in {result} :
        /\ Commit(r.st)
        /\ ops' = IF r.err = "Ok" THEN ops + 1 ELSE ops
        /\ last' = [op |-> op, err |-> r.err, who |-> who, by |-> by, asset |-> asset]
    /\ UNCHANGED <<reserves_vec, reserve_ids, feed_twaps, provider_prices, pool_config, price, now, paused, unpaused_at, permission_owners>>

\* The borrower deposits a first collateral into reserve 0 and a second one
\* into reserve 2 and borrows asset 1: three invocations taken as one step.
OpenPosition ==
    /\ last.op = "open"
    /\ \E first \in DepositAmounts, debt \in BorrowAmounts :
       \E d1 \in {deposit(Cur, "borrower", 0, first)} :
       \E d2 \in {deposit(d1.st, "borrower", 2, Liquidity)} :
       \E b \in {borrow(d2.st, "borrower", 1, debt)} :
          /\ d1.err = "Ok" /\ d2.err = "Ok" /\ b.err = "Ok"
          /\ Commit(b.st)
    /\ last' = [op |-> "borrow", err |-> "Ok", who |-> "borrower", by |-> "borrower",
                asset |-> 1]
    /\ UNCHANGED <<reserves_vec, reserve_ids, feed_twaps, provider_prices, pool_config, price, now, paused, unpaused_at, ops,
                   permission_owners>>

Deposit ==
    \E who \in Users, asset \in Reserves, amount \in DepositAmounts :
        Invoke("deposit", who, who, asset, deposit(Cur, who, asset, amount))

Withdraw ==
    \E who \in Users, asset \in Reserves, amount \in WithdrawAmounts :
        Invoke("withdraw", who, who, asset, withdraw(Cur, who, asset, amount, who))

Borrow ==
    \E who \in Users, asset \in Reserves, amount \in BorrowAmounts :
        Invoke("borrow", who, who, asset, borrow(Cur, who, asset, amount))

Repay ==
    \E who \in Users, asset \in Reserves, amount \in RepayAmounts :
        Invoke("repay", who, who, asset, repay(Cur, who, asset, amount))

Transfer ==
    \E from \in Users, to \in Users, asset \in Reserves, amount \in TransferAmounts :
        Invoke("transfer", from, from, asset, s_token_transfer(Cur, asset, from, to, amount))

Liquidate ==
    \E liquidator \in Users, who \in Users, receive_stoken \in BOOLEAN :
        Invoke("liquidate", liquidator, who, BaseAsset, liquidate(Cur, liquidator, who, receive_stoken))

FlashLoan ==
    \E who \in Users, asset \in Reserves, amount \in FlashLoanAmounts,
       borrow_ \in BOOLEAN, loan_received \in BOOLEAN :
        Invoke("flash_loan", who, who, asset,
               flash_loan(Cur, who, "receiver",
                          <<FlashLoanAsset(asset, amount, borrow_)>>, loan_received))

\* the price feed of asset 1 reports a new TWAP, which the PriceProvider of
\* every later call turns into the price of asset 1
SetPrice ==
    \E p \in Prices :
        /\ Open
        /\ p # price[1]
        /\ feed_twaps' = <<p>>
        /\ price' = [price EXCEPT ![1] = provider_price(NoPrices, 1, <<p>>).price]
        /\ ops' = ops + 1
        /\ last' = [op |-> "set_price", err |-> "Ok", who |-> "lender", by |-> "lender",
                    asset |-> 1]
        /\ UNCHANGED <<reserves_vec, reserve_ids, provider_prices, permission_owners, underlying, s_balance,
                       s_supply, d_balance, d_supply,
                       token_balance, token_total_supply, stoken_underlying_balance,
                       user_config, reserves, pool_config, now, paused, unpaused_at>>

\* the ledger closes: one tick, up to limit
AdvanceTimeUpTo(limit) ==
    /\ Open
    /\ now < limit
    /\ now' = now + 1
    /\ ops' = ops + 1
    /\ last' = [op |-> "advance_time", err |-> "Ok", who |-> "lender", by |-> "lender",
                asset |-> 0]
    /\ UNCHANGED <<reserves_vec, reserve_ids, feed_twaps, provider_prices, permission_owners, underlying, s_balance, s_supply, d_balance, d_supply,
                   token_balance, token_total_supply, stoken_underlying_balance,
                   user_config, reserves, pool_config, price, paused, unpaused_at>>

AdvanceTime == AdvanceTimeUpTo(MaxTime)

\* LendingPool::set_pool_configuration
SetPoolConfiguration ==
    \E limit \in AssetsLimits, health \in InitialHealths, min_debt \in MinDebtAmounts :
        /\ Open
        /\ pool_config' = [pool_config EXCEPT !.user_assets_limit = limit,
                                              !.initial_health = health,
                                              !.min_debt_amount = min_debt]
        /\ pool_config' # pool_config
        /\ ops' = ops + 1
        /\ last' = [op |-> "set_pool_configuration", err |-> "Ok", who |-> "lender",
                    by |-> "lender", asset |-> 0]
        /\ UNCHANGED <<reserves_vec, reserve_ids, feed_twaps, provider_prices, permission_owners, underlying, s_balance, s_supply, d_balance, d_supply,
                       token_balance, token_total_supply, stoken_underlying_balance,
                       user_config, reserves, price, now, paused, unpaused_at>>

\* LendingPool::set_pause.  A call that leaves the flag as it is changes
\* nothing.
SetPause ==
    \E value \in BOOLEAN :
        /\ Open
        /\ value # paused
        /\ paused' = value
        /\ unpaused_at' = IF value THEN unpaused_at ELSE now
        /\ ops' = ops + 1
        /\ last' = [op |-> "set_pause", err |-> "Ok", who |-> "lender", by |-> "lender",
                    asset |-> 0]
        /\ UNCHANGED <<reserves_vec, reserve_ids, feed_twaps, provider_prices, permission_owners, underlying, s_balance, s_supply, d_balance, d_supply,
                       token_balance, token_total_supply, stoken_underlying_balance,
                       user_config, reserves, pool_config, price, now>>

\* The pool starts funded, with any invocations to come or with the
\* borrower's two-collateral position to come first.
Init == PoolInit \/ LiqInit

Next ==
    \/ OpenPosition
    \/ Deposit
    \/ Withdraw
    \/ Borrow
    \/ Repay
    \/ Transfer
    \/ Liquidate
    \/ FlashLoan
    \/ SetPrice
    \/ AdvanceTime
    \/ SetPoolConfiguration
    \/ SetPause

Spec == Init /\ [][Next]_vars

\* The reserve the borrower has borrowed from, over RateTime ticks: the
\* borrower borrows from it and repays it, the liquidator deposits into it and
\* withdraws from it, the borrower takes flash loans of it, the feed reprices
\* it and the liquidator liquidates the borrower.
DebtAsset == 1

RatesInit ==
    /\ pool_config = InitPoolConfig
    /\ price = [r \in Reserves |-> ONE]
    /\ feed_twaps = <<ONE>>
    /\ provider_prices = NoPrices
    /\ reserves_vec = ReserveList
    /\ reserve_ids = InitReserveIds
    /\ now = 0
    /\ paused = FALSE
    /\ unpaused_at = NoTime
    /\ permission_owners = InitPermissionOwners
    /\ ops = MaxOps - RateOps
    /\ last = [op |-> "open", err |-> "Ok", who |-> "borrower", by |-> "borrower",
               asset |-> 0]
    /\ Storage(InitStorage)

NextRates ==
    \/ OpenPosition
    \/ AdvanceTimeUpTo(RateTime)
    \/ (Deposit \/ Withdraw) /\ last'.by = "liquidator" /\ last'.asset = DebtAsset
    \/ (Borrow \/ Repay \/ FlashLoan) /\ last'.by = "borrower" /\ last'.asset = DebtAsset
    \/ Liquidate /\ last'.by = "liquidator" /\ last'.who = "borrower"
    \/ SetPrice

SpecRates == RatesInit /\ [][NextRates]_vars

\* The permission table of the funded pool under any sequence of grants and
\* revocations, by any caller.
PermInit == PoolInit

PermCall(op, who, owner, result) ==
    /\ \E r \in {result} :
        /\ permission_owners' = r.owners
        /\ last' = [op |-> op, err |-> r.err, who |-> owner, by |-> who, asset |-> 0]
    /\ UNCHANGED <<reserves_vec, reserve_ids, feed_twaps, provider_prices, underlying, s_balance, s_supply, d_balance, d_supply, token_balance,
                   token_total_supply, stoken_underlying_balance, user_config,
                   reserves, pool_config, price, now, paused, unpaused_at, ops>>

GrantPermission ==
    \E who \in Accounts, receiver \in Accounts, permission \in Permissions :
        PermCall("grant_permission", who, receiver,
                 grant_permission(permission_owners, who, receiver, permission))

RevokePermission ==
    \E who \in Accounts, owner \in Accounts, permission \in Permissions :
        PermCall("revoke_permission", who, owner,
                 revoke_permission(permission_owners, who, owner, permission))

NextPerm == GrantPermission \/ RevokePermission

SpecPerm == PermInit /\ [][NextPerm]_vars

\* The liquidations of a borrower by a liquidator who is in debt: the
\* borrower opens the two-collateral position, the liquidator deposits into
\* reserve 1 and borrows one of the borrower's collateral assets, and the
\* borrower's position is then lowered by a new price, a withdrawal or a new
\* pool configuration and liquidated.
SeizeInit ==
    /\ pool_config = InitPoolConfig
    /\ price = [r \in Reserves |-> ONE]
    /\ feed_twaps = <<ONE>>
    /\ provider_prices = NoPrices
    /\ reserves_vec = ReserveList
    /\ reserve_ids = InitReserveIds
    /\ now = 0
    /\ paused = FALSE
    /\ unpaused_at = NoTime
    /\ permission_owners = InitPermissionOwners
    /\ ops = MaxOps - SeizeOps
    /\ last = [op |-> "open", err |-> "Ok", who |-> "borrower", by |-> "borrower",
               asset |-> 0]
    /\ Storage(InitStorage)

\* The liquidator deposits into reserve 1 and borrows asset 0 or asset 2: two
\* invocations taken as one step.
OpenDebt ==
    /\ last.op = "borrow" /\ last.by = "borrower"
    /\ ops = MaxOps - SeizeOps
    /\ ~user_config["liquidator"].exists
    /\ \E asset \in Reserves \ {DebtAsset}, debt \in BorrowAmounts :
       \E d \in {deposit(Cur, "liquidator", DebtAsset, Liquidity)} :
       \E b \in {borrow(d.st, "liquidator", asset, debt)} :
          /\ d.err = "Ok" /\ b.err = "Ok"
          /\ Commit(b.st)
          /\ last' = [op |-> "borrow", err |-> "Ok", who |-> "liquidator",
                      by |-> "liquidator", asset |-> asset]
    /\ UNCHANGED <<reserves_vec, reserve_ids, feed_twaps, provider_prices, pool_config, price, now, paused, unpaused_at, ops,
                   permission_owners>>

NextSeize ==
    \/ OpenPosition
    \/ OpenDebt
    \/ SetPrice
    \/ SetPoolConfiguration
    \/ Withdraw /\ last'.by = "borrower"
    \/ Liquidate /\ last'.by = "liquidator" /\ last'.who = "borrower"

SpecSeize == SeizeInit /\ [][NextSeize]_vars

\* The borrows from a reserve whose flags and variant the admin has set: the
\* reserve of asset 1 starts fungible or RWA, frozen or not, and has its status
\* and its borrowing flag changed while the users deposit collateral and
\* borrow from it.
ReserveTypes == {"Fungible", "RWA"}

FlagsInit ==
    /\ pool_config = InitPoolConfig
    /\ InitEnv
    /\ \E frozen \in BOOLEAN, type \in ReserveTypes :
          Storage([InitStorage EXCEPT
                     !.reserves[DebtAsset].is_frozen = frozen,
                     !.reserves[DebtAsset].reserve_type = type,
                     !.reserves[DebtAsset].borrowing_enabled = (type = "Fungible")])

\* an admin call that rewrites the reserve of asset
SetReserve(op, asset, reserve) ==
    /\ Open
    /\ reserve # reserves[asset]
    /\ reserves' = [reserves EXCEPT ![asset] = reserve]
    /\ ops' = ops + 1
    /\ last' = [op |-> op, err |-> "Ok", who |-> "lender", by |-> "lender",
                asset |-> asset]
    /\ UNCHANGED <<reserves_vec, reserve_ids, feed_twaps, provider_prices, permission_owners, underlying, s_balance, s_supply, d_balance, d_supply,
                   token_balance, token_total_supply, stoken_underlying_balance,
                   user_config, pool_config, price, now, paused, unpaused_at>>

\* LendingPool::enable_borrowing_on_reserve
EnableBorrowingOnReserve ==
    \E enabled \in BOOLEAN :
        SetReserve("enable_borrowing_on_reserve", DebtAsset,
                   [reserves[DebtAsset] EXCEPT !.borrowing_enabled = enabled])

\* set_reserve_status
SetReserveStatus ==
    \E is_active \in BOOLEAN :
        SetReserve("set_reserve_status", DebtAsset,
                   [reserves[DebtAsset] EXCEPT !.is_active = is_active])

NextFlags ==
    \/ EnableBorrowingOnReserve
    \/ SetReserveStatus
    \/ Deposit /\ last'.asset # DebtAsset
    \/ Borrow /\ last'.asset = DebtAsset

SpecFlags == FlagsInit /\ [][NextFlags]_vars

\* The liquidations of a borrower with two collateral legs and one debt leg or
\* with one collateral leg and two debt legs: the borrower opens either
\* position, the position is lowered by a new price, a further borrow, a
\* withdrawal or a new pool configuration, and the liquidator liquidates it.
DebtLegAmounts == {5, 240, 260}

LegsOps == 3

LegsInit ==
    /\ \E health \in InitialHealths :
          pool_config = [InitPoolConfig EXCEPT !.initial_health = health]
    /\ price = [r \in Reserves |-> ONE]
    /\ feed_twaps = <<ONE>>
    /\ provider_prices = NoPrices
    /\ reserves_vec = ReserveList
    /\ reserve_ids = InitReserveIds
    /\ now = 0
    /\ paused = FALSE
    /\ unpaused_at = NoTime
    /\ permission_owners = InitPermissionOwners
    /\ ops = MaxOps - LegsOps
    /\ last = [op |-> "open", err |-> "Ok", who |-> "borrower", by |-> "borrower",
               asset |-> 0]
    /\ Storage(InitStorage)

\* The borrower deposits a collateral into reserve 1 and borrows asset 0 and
\* asset 2: three invocations taken as one step.
OpenTwoDebts ==
    /\ last.op = "open"
    /\ \E first \in DebtLegAmounts, second \in DebtLegAmounts :
       \E d \in {deposit(Cur, "borrower", DebtAsset, Liquidity)} :
       \E b1 \in {borrow(d.st, "borrower", 0, first)} :
       \E b2 \in {borrow(b1.st, "borrower", 2, second)} :
          /\ d.err = "Ok" /\ b1.err = "Ok" /\ b2.err = "Ok"
          /\ Commit(b2.st)
    /\ last' = [op |-> "borrow", err |-> "Ok", who |-> "borrower", by |-> "borrower",
                asset |-> 2]
    /\ UNCHANGED <<reserves_vec, reserve_ids, feed_twaps, provider_prices, pool_config, price, now, paused, unpaused_at, ops,
                   permission_owners>>

NextLegs ==
    \/ OpenPosition
    \/ OpenTwoDebts
    \/ SetPrice
    \/ SetPoolConfiguration
    \/ Withdraw /\ last'.by = "borrower"
    \/ Borrow /\ last'.by = "borrower" /\ last'.asset = DebtAsset
    \/ Liquidate /\ last'.by = "liquidator" /\ last'.who = "borrower"

SpecLegs == LegsInit /\ [][NextLegs]_vars

\* The price of asset 1 under any reports of its feeds: up to MaxFeeds feeds
\* report a TWAP each, a call creates its PriceProvider, and the provider is
\* asked for the price of asset 1, any number of times in one call.
MaxFeeds == 3

\* the TWAPs the feeds of asset 1 report, one for each feed
TwapLists ==
    UNION {[1..n -> Prices] : n \in 1..MaxFeeds}

PriceStep(op) ==
    /\ last' = [op |-> op, err |-> "Ok", who |-> "lender", by |-> "lender",
                asset |-> DebtAsset]
    /\ UNCHANGED <<reserves_vec, reserve_ids, underlying, s_balance, s_supply, d_balance, d_supply, token_balance,
                   token_total_supply, stoken_underlying_balance, user_config,
                   reserves, pool_config, now, paused, unpaused_at, ops,
                   permission_owners>>

\* the feeds of asset 1 report new TWAPs
FeedsReport ==
    \E twaps \in TwapLists :
        /\ twaps # feed_twaps
        /\ feed_twaps' = twaps
        /\ UNCHANGED <<price, provider_prices>>
        /\ PriceStep("feeds_report")

\* PriceProvider::new: a call begins
ProviderNew ==
    /\ provider_prices # NoPrices
    /\ provider_prices' = NoPrices
    /\ UNCHANGED <<price, feed_twaps>>
    /\ PriceStep("provider_new")

\* PriceProvider::price of asset 1, as convert_to_base and convert_from_base
\* call it
ProviderPrice ==
    \E r \in {provider_price(provider_prices, DebtAsset, feed_twaps)} :
        /\ provider_prices' = r.prices
        /\ price' = [price EXCEPT ![DebtAsset] = r.price]
        /\ UNCHANGED feed_twaps
        /\ PriceStep("price")

NextPrice == FeedsReport \/ ProviderNew \/ ProviderPrice

SpecPrice == PoolInit /\ [][NextPrice]_vars

(* ------------- the reserve list under init_reserve ------------------- *)

\* addresses an admin may hand to init_reserve: those of the three reserves
\* and as many fresh ones as make the list overflow a u8
MaxAssets == 258
AssetAddresses == 0..(MaxAssets - 1)

\* the first address with no reserve
NextAsset == CHOOSE a \in AssetAddresses :
                /\ a \notin DOMAIN reserve_ids
                /\ \A b \in AssetAddresses : b < a => b \in DOMAIN reserve_ids

\* LendingPool::init_reserve on the reserve list and the ids: the error, the
\* list and the ids it leaves
init_reserve(vec, ids, asset) ==
    LET reserves_len == Len(vec)
        id == reserves_len % 256
    IN  IF asset \in DOMAIN ids
        THEN [err |-> "ReserveAlreadyInitialized", vec |-> vec, ids |-> ids]
        ELSE IF ~(reserves_len <= u8_MAX)
        THEN [err |-> "ReservesMaxCapacityExceeded", vec |-> vec, ids |-> ids]
        ELSE [err |-> "Ok", vec |-> Append(vec, asset),
              ids |-> [a \in DOMAIN ids \cup {asset} |->
                          IF a = asset THEN id ELSE ids[a]]]

\* what a step on the reserve list leaves alone
ReservesStep ==
    UNCHANGED <<underlying, s_balance, s_supply, d_balance, d_supply, token_balance,
                token_total_supply, stoken_underlying_balance, user_config,
                reserves, pool_config, price, now, paused, unpaused_at, ops,
                permission_owners, feed_twaps, provider_prices>>

\* the admin calls init_reserve, for an asset that has a reserve or for the
\* next one that has none
InitReserveCall ==
    /\ last.err = "Ok"
    /\ \E asset \in {0, NextAsset} :
       \E r \in {init_reserve(reserves_vec, reserve_ids, asset)} :
          /\ reserves_vec' = r.vec
          /\ reserve_ids' = r.ids
          /\ last' = [op |-> "init_reserve", err |-> r.err, who |-> "lender",
                      by |-> "lender", asset |-> asset]
    /\ ReservesStep

\* the borrower opens a position: deposits into reserves 0 and 2, a borrow
\* of asset 1
OpenBorrower ==
    /\ last.err = "Ok"
    /\ is_empty(user_config["borrower"])
    /\ \E first \in DepositAmounts, debt \in BorrowAmounts :
       \E d1 \in {deposit(Cur, "borrower", 0, first)} :
       \E d2 \in {deposit(d1.st, "borrower", 2, Liquidity)} :
       \E b \in {borrow(d2.st, "borrower", DebtAsset, debt)} :
          /\ d1.err = "Ok" /\ d2.err = "Ok"
          /\ Commit(b.st)
          /\ last' = [op |-> "borrow", err |-> b.err, who |-> "borrower",
                      by |-> "borrower", asset |-> DebtAsset]
    /\ UNCHANGED <<reserves_vec, reserve_ids, feed_twaps, provider_prices, pool_config,
                   price, now, paused, unpaused_at, ops, permission_owners>>

\* get_account_position of a user
AccountPosition ==
    /\ last.err = "Ok"
    /\ \E who \in Users :
          last' = [op |-> "get_account_position",
                   err |-> get_account_position(Cur, who).err,
                   who |-> who, by |-> who, asset |-> 0]
    /\ UNCHANGED <<reserves_vec, reserve_ids>>
    /\ ReservesStep

NextReserves == InitReserveCall \/ OpenBorrower \/ AccountPosition

SpecReserves == PoolInit /\ [][NextReserves]_vars

(* ------------------------------ properties ---------------------------- *)

\* the position of a user as get_account_position reports it
Position(who) == get_account_position(Cur, who)

\* C1: while the pool is not paused, liquidate called on a borrower whose
\* position is good (npv > 0) fails with GoodPosition and leaves every token
\* balance, reserve index, pool counter and user configuration as it was,
\* whoever the liquidator is and whichever way the collateral is to be
\* received.  (A paused pool refuses the call with Paused before it looks at
\* the position.)
C1_GoodPositionNotLiquidated ==
    ~paused =>
        \A liquidator \in Users, who \in Users, receive_stoken \in BOOLEAN :
            Position(who).npv > 0 =>
                liquidate(Cur, liquidator, who, receive_stoken)
                    = Result("GoodPosition", Cur)

\* C1 happens: a liquidation of a borrower with debt and a good position has
\* been refused
C1_Witness ==
    /\ last.op = "liquidate"
    /\ last.err = "GoodPosition"
    /\ Position(last.who).npv > 0
    /\ Position(last.who).debt > 0

\* the position of a user in the storage a call leaves
PositionIn(S, who) == get_account_position(S, who)

\* who holds s-tokens and debt tokens: a position with legs on both sides
HasLegs(who) ==
    /\ \E a \in Reserves : s_balance[a][who] > 0
    /\ \E a \in Reserves : d_balance[a][who] > 0

\* a liquidation by liquidator of who has seized every collateral leg
SeizedInFull(L, who) ==
    /\ L.err = "Ok"
    /\ \A a \in Reserves : L.st.s_balance[a][who] = 0

\* C2: for a borrower whose npv is < 0, a successful liquidate leaves the
\* borrower's npv >= 0 or has seized every collateral leg in full.
C2_LiquidationMonotonic ==
    \A liquidator \in Users, who \in Users, receive_stoken \in BOOLEAN :
        LET L == liquidate(Cur, liquidator, who, receive_stoken)
        IN  (Position(who).npv < 0 /\ L.err = "Ok") =>
                \/ PositionIn(L.st, who).npv >= 0
                \/ SeizedInFull(L, who)

\* C3: a liquidation that seizes all of the borrower's collateral leaves the
\* borrower with no debt tokens and with discounted collateral, debt and npv
\* all 0, and the liquidator has received the whole collateral, as s-tokens
\* or as underlying.
C3_FullLiquidation ==
    \A liquidator \in Users, who \in Users, receive_stoken \in BOOLEAN :
        LET L == liquidate(Cur, liquidator, who, receive_stoken)
            P == PositionIn(L.st, who)
        IN  (liquidator # who /\ HasLegs(who) /\ SeizedInFull(L, who)) =>
                /\ \A a \in Reserves : L.st.d_balance[a][who] = 0
                /\ P.discounted_collateral = 0 /\ P.debt = 0 /\ P.npv = 0
                /\ \A a \in Reserves :
                      (s_balance[a][who] > 0 /\ d_balance[a][who] = 0) =>
                          IF receive_stoken
                          THEN L.st.s_balance[a][liquidator] =
                                   s_balance[a][liquidator] + s_balance[a][who]
                          ELSE L.st.underlying[a][liquidator] =
                                   underlying[a][liquidator]
                                       + mul_int(get_collateral_coeff(reserves[a]),
                                                 s_balance[a][who])

\* the liquidator can pay every debt of who
CanCover(liquidator, who) ==
    \A a \in Reserves :
        underlying[a][liquidator] >= mul_int(get_debt_coeff(reserves[a]), d_balance[a][who])

\* C4: liquidate on a bad position with legs, by a liquidator who can pay,
\* succeeds (the pool not being paused) and leaves the borrower's npv
\* strictly greater than it was, also when an amount to seize or to cover
\* rounds to 0.
C4_BadPositionLiquidated ==
    \A liquidator \in Users, who \in Users, receive_stoken \in BOOLEAN :
        LET L == liquidate(Cur, liquidator, who, receive_stoken)
        IN  (~paused /\ liquidator # who /\ HasLegs(who) /\ Position(who).npv <= 0
                /\ CanCover(liquidator, who)
                /\ user_config[liquidator].borrowing = {}) =>
                /\ L.err = "Ok"
                /\ PositionIn(L.st, who).npv > Position(who).npv

\* C5: after every successful borrow and every successful withdraw the user's
\* position, on the balances the operation leaves, has
\* npv >= initial_health * discounted_collateral / 10000.
C5_HealthAfterBorrowOrWithdraw ==
    (last.op \in {"borrow", "withdraw"} /\ last.err = "Ok") =>
        Position(last.who).npv >=
            TruncDiv(pool_config.initial_health * Position(last.who).discounted_collateral,
                     PERCENTAGE_FACTOR)

\* C6: after a successful withdraw by a user who has debt, the position on the
\* balance the withdrawal leaves is good: npv > 0.
C6_GoodAfterWithdraw ==
    (last.op = "withdraw" /\ last.err = "Ok" /\ user_config[last.who].borrowing # {}) =>
        Position(last.who).npv > 0

\* C7: after every successful borrow, direct or as a flash-loan leg, the
\* utilization of the borrowed reserve is at most its util_cap.
C7_UtilizationCapped ==
    (last.op \in {"borrow", "flash_loan"} /\ last.err = "Ok") =>
        utilization(Cur, last.asset) <= from_percentage(reserves[last.asset].util_cap)

\* C8: no user ever has the collateral bit and the borrow bit of the same
\* reserve, and a borrow of an asset the user holds as collateral fails with
\* BorrowCollateralSameAsset (the pool not being paused).
C8_CollateralXorBorrow ==
    /\ \A u \in Accounts : user_config[u].collateral \cap user_config[u].borrowing = {}
    /\ \A who \in Users, asset \in Reserves, amount \in BorrowAmounts :
          (~paused /\ asset \in user_config[who].collateral) =>
              borrow(Cur, who, asset, amount).err = "BorrowCollateralSameAsset"

\* C9: for every user and reserve the borrow bit is set exactly when the
\* user's debt-token balance of the reserve is positive.
C9_BorrowBitIffDebt ==
    \A u \in Accounts, r \in Reserves :
        (r \in user_config[u].borrowing) <=> (d_balance[r][u] > 0)

\* C9 happens: a liquidator who never held the reserve has paid part of the
\* borrower's debt in it, debt tokens were burned, and the borrower, still in
\* debt, keeps the borrow bit
C9_Witness ==
    /\ last.op = "liquidate" /\ last.err = "Ok" /\ last.by # last.who
    /\ \E r \in Reserves :
          /\ r \in user_config[last.who].borrowing
          /\ d_balance[r][last.who] > 0
          /\ s_balance[r][last.by] = 0
          /\ d_balance[r][last.by] = 0
          /\ underlying[r][last.by] < UserFunds

\* the number of reserves with the collateral or the borrow bit of u set
popcount(u) == Cardinality(user_config[u].collateral \cup user_config[u].borrowing)

\* C10 as claimed: for every user total_assets is the number of reserves with
\* the collateral or the borrow bit set, and it is at most user_assets_limit,
\* in every reachable state, set_pool_configuration included.
C10_TotalAssetsWithinLimit ==
    \A u \in Accounts :
        /\ user_config[u].total_assets = popcount(u)
        /\ user_config[u].total_assets <= pool_config.user_assets_limit

\* an invocation with result r that raises a user's total_assets leaves it
\* within the limit in force
RaisedWithinLimit(r) ==
    r.err = "Ok" =>
        \A u \in Accounts :
            r.st.user_config[u].total_assets > user_config[u].total_assets =>
                r.st.user_config[u].total_assets <= pool_config.user_assets_limit

\* C10, amended: in every state total_assets is the number of reserves with
\* the collateral or the borrow bit set, and every operation that raises a
\* user's total_assets leaves it at most user_assets_limit, failing
\* otherwise; set_pool_configuration may put the limit below a total_assets
\* already held.
C10_TotalAssetsWithinLimitWhenRaised ==
    /\ \A u \in Accounts : user_config[u].total_assets = popcount(u)
    /\ \A who \in Users, asset \in Reserves :
          /\ \A amount \in DepositAmounts :
                RaisedWithinLimit(deposit(Cur, who, asset, amount))
          /\ \A amount \in WithdrawAmounts :
                RaisedWithinLimit(withdraw(Cur, who, asset, amount, who))
          /\ \A amount \in BorrowAmounts :
                RaisedWithinLimit(borrow(Cur, who, asset, amount))
          /\ \A amount \in FlashLoanAmounts :
                RaisedWithinLimit(flash_loan(Cur, who, "receiver",
                                             <<FlashLoanAsset(asset, amount, TRUE)>>, TRUE))
          /\ \A to \in Users, amount \in TransferAmounts :
                RaisedWithinLimit(s_token_transfer(Cur, asset, who, to, amount))
    /\ \A liquidator \in Users, who \in Users, receive_stoken \in BOOLEAN :
          RaisedWithinLimit(liquidate(Cur, liquidator, who, receive_stoken))

\* C10 happens: the limit has been lowered to 2, a borrow has raised the
\* user's total_assets to it, and a further deposit into a new reserve would
\* be refused with UserAssetsLimitExceeded
C10_Witness ==
    /\ last.op = "borrow" /\ last.err = "Ok"
    /\ pool_config.user_assets_limit = 2
    /\ user_config[last.who].total_assets = 2
    /\ \E asset \in Reserves, amount \in DepositAmounts :
          deposit(Cur, last.who, asset, amount).err = "UserAssetsLimitExceeded"

grace_period_secs == 1

\* a pause has been lifted and the grace period that follows it is running
InGracePeriod ==
    ~paused /\ unpaused_at # NoTime /\ now < unpaused_at + grace_period_secs

\* a pause has been lifted and the grace period that follows it is over
PastGracePeriod ==
    ~paused /\ unpaused_at # NoTime /\ now >= unpaused_at + grace_period_secs

\* the error of a borrow or of a liquidation is (is not) GracePeriod,
\* whoever calls and whatever the arguments
BorrowAndLiquidateGated(gated) ==
    /\ \A who \in Users, asset \in Reserves, amount \in BorrowAmounts :
          (borrow(Cur, who, asset, amount).err = "GracePeriod") = gated
    /\ \A liquidator \in Users, who \in Users, receive_stoken \in BOOLEAN :
          (liquidate(Cur, liquidator, who, receive_stoken).err = "GracePeriod") = gated

\* C12: after set_pause(true) and then set_pause(false) at time T, borrow and
\* liquidate fail with GracePeriod at every time before T + grace_period_secs
\* and do not fail with it from T + grace_period_secs on.
C12_GracePeriodGate ==
    /\ InGracePeriod => BorrowAndLiquidateGated(TRUE)
    /\ PastGracePeriod => BorrowAndLiquidateGated(FALSE)

\* the legs a flash loan is made of
FlashLoanLegs ==
    {FlashLoanAsset(asset, amount, borrow_) :
        asset \in Reserves, amount \in FlashLoanAmounts, borrow_ \in BOOLEAN}

\* the flash loans of one leg and of two legs of different assets
FlashLoans ==
    {<<leg>> : leg \in FlashLoanLegs}
        \cup {loan_assets \in FlashLoanLegs \X FlashLoanLegs :
                 loan_assets[1].asset # loan_assets[2].asset}

\* one leg at least of the loan is to be kept as a borrow
HasBorrowLeg(loan_assets) ==
    \E i \in 1..Len(loan_assets) : loan_assets[i].borrow

\* C13: during the grace period a flash loan that the receiver acknowledges
\* succeeds when none of its legs is a borrow, and fails with GracePeriod,
\* leaving the storage as it was before the call, the transfers already made
\* to the receiver included, when one leg at least is a borrow.
C13_FlashLoanInGracePeriod ==
    InGracePeriod =>
        \A who \in Users, loan_assets \in FlashLoans :
            IF HasBorrowLeg(loan_assets)
            THEN flash_loan(Cur, who, "receiver", loan_assets, TRUE)
                    = Result("GracePeriod", Cur)
            ELSE flash_loan(Cur, who, "receiver", loan_assets, TRUE).err = "Ok"

\* The state is one a successful invocation has left.  A failed invocation
\* leaves the storage, the configuration, the prices and the clock of the
\* state it was made in, so what holds of the calls made in these states holds
\* of the calls made in every state.
Committed == last.err = "Ok"

\* the outcome of the second loop of a flash loan of one or two legs, taken
\* one leg at a time from the storage the first loop has left
SettledByLegs(sent, loan_assets, who) ==
    LET first == flash_loan_settle_one(sent.st, loan_assets[1], who, "receiver",
                                       reserves)
    IN  IF first.err # "Ok" \/ Len(loan_assets) = 1 THEN first
        ELSE flash_loan_settle_one(first.st, loan_assets[2], who, "receiver", reserves)

\* C14: a flash loan is all or nothing.  Once every amount has been handed to
\* the receiver, the call fails with FlashLoanReceiverError if the receiver
\* answers false and with the error of the first leg that cannot be settled
\* otherwise; and a flash loan that fails, for whatever reason, leaves every
\* underlying balance (the receiver's and the treasury's included), every
\* s-token and debt-token balance, every user configuration and every pool
\* counter as before the call.
C14_FlashLoanAllOrNothing ==
    ~paused /\ Committed =>
        \A who \in Users, loan_assets \in FlashLoans, loan_received \in BOOLEAN :
            \E sent \in {flash_loan_send(Result("Ok", Cur), loan_assets, "receiver")} :
            \E r \in {flash_loan(Cur, who, "receiver", loan_assets, loan_received)} :
                /\ r.err # "Ok" => r.st = Cur
                /\ sent.err = "Ok" /\ ~loan_received => r.err = "FlashLoanReceiverError"
                /\ sent.err = "Ok" /\ loan_received =>
                      r.err = SettledByLegs(sent, loan_assets, who).err

\* C14 happens: a flash loan has been refused by its receiver after the
\* amount had been handed over, and one has failed in its second loop.
C14_Witness ==
    /\ last.op = "flash_loan"
    /\ last.err = "FlashLoanReceiverError"
    /\ \E who \in Users, loan_assets \in FlashLoans :
          /\ flash_loan_send(Result("Ok", Cur), loan_assets, "receiver").err = "Ok"
          /\ ~loan_assets[1].borrow
          /\ flash_loan(Cur, who, "receiver", loan_assets, TRUE).err
                \notin {"Ok", "FlashLoanReceiverError"}

\* amounts whose premium is a whole number and amounts whose premium is cut
PremiumAmounts == {99, 100, 150}

\* the flash loans of one leg that is paid back, and the flash loans of two
\* legs of which one at least is paid back
PaidBackLoans ==
    {<<FlashLoanAsset(asset, amount, FALSE)>> :
        asset \in Reserves, amount \in PremiumAmounts}
        \cup {loan_assets \in FlashLoans :
                Len(loan_assets) = 2 /\ ~(loan_assets[1].borrow /\ loan_assets[2].borrow)}

\* C15: for every leg with borrow = false of a flash loan that succeeds, with
\* premium = flash_loan_fee * amount / 10000 cut to a whole number: the
\* receiver ends with premium less of the asset than before the call, the
\* treasury with premium more, and the s-token holds as much of the asset
\* after the call as before it.
C15_FlashLoanPremium ==
    Committed =>
        \A who \in Users, loan_assets \in PaidBackLoans :
        \E r \in {flash_loan(Cur, who, "receiver", loan_assets, TRUE)} :
            r.err = "Ok" =>
                \A i \in 1..Len(loan_assets) :
                    LET asset == loan_assets[i].asset
                        premium == TruncDiv(pool_config.flash_loan_fee
                                                * loan_assets[i].amount,
                                            PERCENTAGE_FACTOR)
                    IN  ~loan_assets[i].borrow =>
                            /\ r.st.underlying[asset]["receiver"]
                                  = underlying[asset]["receiver"] - premium
                            /\ r.st.underlying[asset]["treasury"]
                                  = underlying[asset]["treasury"] + premium
                            /\ r.st.underlying[asset]["stoken"]
                                  = underlying[asset]["stoken"]

\* C15 happens: a flash loan that was paid back has succeeded and the
\* treasury holds its premium.
C15_Witness ==
    /\ last.op = "flash_loan"
    /\ last.err = "Ok"
    /\ underlying[last.asset]["treasury"] > 0
    /\ d_supply[last.asset] = 0

\* amounts of a borrow leg: one the reserve can lend within its util_cap and
\* one it cannot
BorrowLegAmounts == {100, 600}

\* the flash loans of one leg that is borrowed, and the flash loans of two
\* legs of which one at least is borrowed
BorrowedLoans ==
    {<<FlashLoanAsset(asset, amount, TRUE)>> :
        asset \in Reserves, amount \in BorrowLegAmounts}
        \cup {loan_assets \in FlashLoans : Len(loan_assets) = 2 /\ HasBorrowLeg(loan_assets)}

\* what who owes of asset in S at a debt coefficient: debt_coeff * debt-token
\* balance
Owed(debt_coeff, S, asset, who) == mul_int(debt_coeff, S.d_balance[asset][who])

\* the debt coefficient a flash loan borrows asset at: that of the reserve as
\* the first loop reads it
LoanDebtCoeff(asset) == get_debt_coeff(reserves[asset])

\* the debt coefficient a repay of asset is made at: that of the refreshed
\* reserve
ActualDebtCoeff(asset) ==
    get_debt_coeff(get_actual_reserve_data(Cur, asset).reserves[asset])

\* S with the reserve of asset as the present storage holds it: the reserve a
\* flash loan reads in its first loop and borrows on, before the refresh that
\* ends the leg
AsRead(S, asset) == [S EXCEPT !.reserves[asset] = reserves[asset]]

\* the asset of the last leg of a flash loan that is borrowed
LastBorrowed(loan_assets) ==
    loan_assets[CHOOSE i \in 1..Len(loan_assets) :
                    /\ loan_assets[i].borrow
                    /\ \A j \in (i + 1)..Len(loan_assets) : ~loan_assets[j].borrow].asset

\* who, after a call that has left S, passes the admission checks of a borrow
\* of asset
BorrowAdmitted(S, who, asset) ==
    /\ PositionIn(S, who).npv > 0
    /\ PositionIn(S, who).npv
          >= TruncDiv(pool_config.initial_health * PositionIn(S, who).discounted_collateral,
                      PERCENTAGE_FACTOR)
    /\ PositionIn(S, who).debt >= pool_config.min_debt_amount

\* the reserve of asset, after a call that has left S, is within its util_cap
WithinUtilCap(S, asset) ==
    utilization(S, asset) <= from_percentage(S.reserves[asset].util_cap)

\* what a flash loan of loan_assets with result r has done for its caller who
\* on a leg that is borrowed, the debt apart: the receiver keeps the amount,
\* the treasury receives no premium, the caller's borrow bit of the asset is
\* set and the caller passes every admission check of a borrow, on the
\* reserves as the call read them
BorrowLegOutcome(r, who, loan_assets, loan_asset) ==
    /\ r.st.underlying[loan_asset.asset]["receiver"]
          = underlying[loan_asset.asset]["receiver"] + loan_asset.amount
    /\ r.st.underlying[loan_asset.asset]["treasury"]
          = underlying[loan_asset.asset]["treasury"]
    /\ is_borrowing(r.st.user_config[who], loan_asset.asset)
    /\ BorrowAdmitted(AsRead(r.st, LastBorrowed(loan_assets)), who, loan_asset.asset)
    /\ WithinUtilCap(AsRead(r.st, loan_asset.asset), loan_asset.asset)
    /\ RaisedWithinLimit(r)

RepaidAmounts == {3, 5, 6, 7, 600, 720, I128_MAX}

\* C17: a repay by a debtor who holds the amount to pay succeeds; with
\* owed = debt_coeff * debt-token balance, a repay of owed or more, MAX
\* included, burns the whole debt-token balance, takes exactly owed of the
\* underlying from the payer and clears the borrow bit, and a repay of less
\* burns amount / debt_coeff debt tokens, takes exactly amount and leaves the
\* borrow bit set.
C17_RepayFullOrPartial ==
    Committed /\ ~paused =>
        \A who \in Users, asset \in Reserves, amount \in RepaidAmounts :
        \E owed \in {Owed(ActualDebtCoeff(asset), Cur, asset, who)} :
        \E r \in {repay(Cur, who, asset, amount)} :
            d_balance[asset][who] > 0 /\ underlying[asset][who] >= Min(amount, owed) =>
                /\ r.err = "Ok"
                /\ amount >= owed =>
                      /\ r.st.d_balance[asset][who] = 0
                      /\ r.st.underlying[asset][who] = underlying[asset][who] - owed
                      /\ ~is_borrowing(r.st.user_config[who], asset)
                /\ amount < owed =>
                      /\ r.st.d_balance[asset][who]
                            = d_balance[asset][who]
                                - TruncDiv(amount * DENOMINATOR, ActualDebtCoeff(asset))
                      /\ r.st.underlying[asset][who] = underlying[asset][who] - amount
                      /\ is_borrowing(r.st.user_config[who], asset)

\* C17 happens: a debtor has repaid with MAX the whole of a debt that had
\* grown, and has paid more of the asset than was borrowed.
C17_Witness ==
    /\ last.op = "repay"
    /\ last.err = "Ok"
    /\ get_debt_coeff(reserves[last.asset]) > ONE
    /\ d_balance[last.asset][last.who] = 0
    /\ ~is_borrowing(user_config[last.who], last.asset)
    /\ s_balance[last.asset][last.who] = 0
    /\ underlying[last.asset][last.who] < UserFunds

\* what holder holds more of asset in S than in the present storage
Gained(S, asset, holder) == S.underlying[asset][holder] - underlying[asset][holder]

\* C18: on every successful repay of a debt, what the payer pays of the
\* underlying is what the s-token and the treasury receive together, and the
\* treasury receives the interest share: whenever the payer pays more than
\* the burned debt tokens are worth to the lenders (collat_coeff * burned
\* tokens), the treasury's balance of the asset grows.
C18_RepaySplitsInterest ==
    Committed /\ ~paused =>
        \A who \in Users, asset \in Reserves, amount \in RepaidAmounts :
        \E r \in {repay(Cur, who, asset, amount)} :
            d_balance[asset][who] > 0 /\ r.err = "Ok" =>
                LET paid == - Gained(r.st, asset, who)
                    burned == d_balance[asset][who] - r.st.d_balance[asset][who]
                    lenders == mul_int(get_collateral_coeff(reserves[asset]), burned)
                IN  /\ paid = Gained(r.st, asset, "stoken") + Gained(r.st, asset, "treasury")
                    /\ Gained(r.st, asset, "treasury") >= 0
                    /\ paid > lenders => Gained(r.st, asset, "treasury") > 0

\* the balances, the pool's counters and the user configurations of S are
\* those of the present storage
SameBalancesAndConfigs(S) ==
    /\ S.underlying = underlying
    /\ S.s_balance = s_balance
    /\ S.s_supply = s_supply
    /\ S.d_balance = d_balance
    /\ S.d_supply = d_supply
    /\ S.token_balance = token_balance
    /\ S.token_total_supply = token_total_supply
    /\ S.stoken_underlying_balance = stoken_underlying_balance
    /\ S.user_config = user_config

\* C19: repay(MAX) by a user who has no debt in the asset succeeds and
\* changes no underlying balance, no s-token or debt-token balance, no user
\* configuration and no counter of the pool.
C19_RepayWithoutDebt ==
    ~paused =>
        \A who \in Users, asset \in Reserves :
            d_balance[asset][who] = 0 =>
                \E r \in {repay(Cur, who, asset, I128_MAX)} :
                    r.err = "Ok" /\ SameBalancesAndConfigs(r.st)

\* C19 happens: the first invocation of the pool was a repay, by a user who
\* had never borrowed, and it succeeded.
C19_Witness ==
    /\ ops = 1
    /\ last.op = "repay"
    /\ last.err = "Ok"
    /\ ~user_config[last.who].exists
    /\ underlying[last.asset][last.who] = UserFunds

\* who holds no s-tokens and no debt tokens and has no bit set
NoPosition(who) ==
    /\ \A a \in Reserves : s_balance[a][who] = 0 /\ d_balance[a][who] = 0
    /\ user_config[who].collateral = {} /\ user_config[who].borrowing = {}

\* C20: whatever the collateral coefficient of the reserve, a deposit of x by
\* a user without a position, followed at once by the user's withdraw(MAX),
\* gives the user back x or x - 1 of the underlying and leaves the user
\* without s-tokens of the asset and without its collateral bit.
C20_DepositWithdrawRoundTrip ==
    Committed /\ ~paused =>
        \A who \in Users, asset \in Reserves, x \in DepositAmounts :
        \E d \in {deposit(Cur, who, asset, x)} :
            NoPosition(who) /\ d.err = "Ok" =>
                \E w \in {withdraw(d.st, who, asset, I128_MAX, who)} :
                    /\ w.err = "Ok"
                    /\ w.st.underlying[asset][who] - d.st.underlying[asset][who]
                          \in {x - 1, x}
                    /\ w.st.s_balance[asset][who] = 0
                    /\ ~is_using_as_collateral(w.st.user_config[who], asset)

\* every stored index of every reserve, and every coefficient derived from
\* it at the present time, is at least 1.0
IndicesAtLeastOne ==
    \A a \in Reserves :
        /\ reserves[a].collat_accrued_rate >= ONE
        /\ reserves[a].debt_accrued_rate >= ONE
        /\ get_collateral_coeff(reserves[a]) >= ONE
        /\ get_debt_coeff(reserves[a]) >= ONE

\* a step lowers no stored index and no last_update_timestamp, and leaves no
\* last_update_timestamp ahead of the ledger
StoredIndicesKept ==
    \A a \in Reserves :
        /\ reserves'[a].collat_accrued_rate >= reserves[a].collat_accrued_rate
        /\ reserves'[a].debt_accrued_rate >= reserves[a].debt_accrued_rate
        /\ reserves'[a].last_update_timestamp >= reserves[a].last_update_timestamp
        /\ reserves'[a].last_update_timestamp <= now'

\* a step lowers no coefficient derived from the stored indices
CoefficientsKept ==
    \A a \in Reserves :
        /\ get_collateral_coeff(reserves[a])' >= get_collateral_coeff(reserves[a])
        /\ get_debt_coeff(reserves[a])' >= get_debt_coeff(reserves[a])

\* C21 as claimed: across every sequence of user operations and ticks, the
\* stored lender and borrower indices of every reserve and the collateral and
\* debt coefficients derived from them never decrease and stay >= 1.0, and
\* last_update_timestamp never decreases.
C21_IndicesNeverDecrease ==
    []IndicesAtLeastOne /\ [][StoredIndicesKept /\ CoefficientsKept]_vars

\* a step that lowers a coefficient is a refresh of the reserve at a rate
\* below the stored one: it moves last_update_timestamp to the present time
\* and leaves the coefficient at the stored index
CoefficientsLoweredByRefresh ==
    \A a \in Reserves :
        /\ get_collateral_coeff(reserves[a])' < get_collateral_coeff(reserves[a])
              => /\ reserves'[a].last_update_timestamp = now'
                 /\ reserves[a].last_update_timestamp < now
                 /\ reserves'[a].lend_ir < reserves[a].lend_ir
        /\ get_debt_coeff(reserves[a])' < get_debt_coeff(reserves[a])
              => /\ reserves'[a].last_update_timestamp = now'
                 /\ reserves[a].last_update_timestamp < now
                 /\ reserves'[a].debt_ir < reserves[a].debt_ir

\* C21, amended: across every sequence of user operations and ticks, the
\* stored lender and borrower indices of every reserve never decrease, they
\* and the coefficients derived from them stay >= 1.0, and
\* last_update_timestamp never decreases; a derived coefficient falls only in
\* a refresh that stores a rate below the one it was projected at.
C21_StoredIndicesNeverDecrease ==
    []IndicesAtLeastOne /\ [][StoredIndicesKept /\ CoefficientsLoweredByRefresh]_vars

\* C21 happens: the reserve has been refreshed at a later time than a refresh
\* that had raised both indices, and its debt has been repaid in between.
C21_Witness ==
    /\ reserves[DebtAsset].last_update_timestamp = RateTime
    /\ reserves[DebtAsset].collat_accrued_rate > ONE
    /\ reserves[DebtAsset].debt_accrued_rate > ONE
    /\ d_supply[DebtAsset] = 0
    /\ reserves[DebtAsset].debt_ir = calc_interest_rate(0)
    /\ last.err = "Ok"

\* PoolConfig.timestamp_window, in ledger ticks
timestamp_window == 2

\* The stored indices and the timestamp a refresh of the reserve would leave
RefreshKept(asset) ==
    \E actual \in {get_actual_reserve_data(Cur, asset).reserves[asset]} :
        /\ actual.collat_accrued_rate = reserves[asset].collat_accrued_rate
        /\ actual.debt_accrued_rate = reserves[asset].debt_accrued_rate
        /\ actual.last_update_timestamp = reserves[asset].last_update_timestamp

RefreshAdvanced(asset) ==
    \E actual \in {get_actual_reserve_data(Cur, asset).reserves[asset]} :
        /\ actual.collat_accrued_rate >= reserves[asset].collat_accrued_rate
        /\ actual.debt_accrued_rate > reserves[asset].debt_accrued_rate
        /\ actual.last_update_timestamp = now

RefreshBatched ==
    \A asset \in Reserves :
        IF now - reserves[asset].last_update_timestamp < timestamp_window
        THEN RefreshKept(asset)
        ELSE RefreshAdvanced(asset)

\* Two reads of the coefficients of an untouched reserve, one before and one
\* after a step, in the same window since the last update
ReadsBatched ==
    \A asset \in Reserves :
        (/\ reserves'[asset] = reserves[asset]
         /\ (now - reserves[asset].last_update_timestamp) \div timestamp_window
                = (now' - reserves[asset].last_update_timestamp) \div timestamp_window)
            => /\ get_debt_coeff(reserves[asset])' = get_debt_coeff(reserves[asset])
               /\ get_collateral_coeff(reserves[asset])'
                      = get_collateral_coeff(reserves[asset])

\* C22: a refresh of a reserve less than timestamp_window after its last
\* update leaves both stored indices and last_update_timestamp as they are,
\* and two reads of a coefficient in the same window since the last update
\* are equal; from timestamp_window on, the refresh advances the indices and
\* sets last_update_timestamp to the current time.
C22_RefreshBatchedByWindow == []RefreshBatched /\ [][ReadsBatched]_vars

\* rate::get_actual_lender_accrued_rate: the lender index accrued up to the
\* current time at the stored lender rate
get_actual_lender_accrued_rate(reserve) == get_collateral_coeff(reserve)

\* faulty variant: the debt tokens are valued at the borrower index
get_collat_coeff_at_debt_rate(reserve, s_token_supply, s_token_underlying_balance, debt_token_supply) ==
    IF s_token_supply = 0 THEN ONE
    ELSE from_rational(
            s_token_underlying_balance
                + mul_int(get_debt_coeff(reserve), debt_token_supply),
            s_token_supply)

\* faulty variant: the lender index itself is taken for the coefficient
get_collat_coeff_of_rate(reserve, s_token_supply, s_token_underlying_balance, debt_token_supply) ==
    IF s_token_supply = 0 THEN ONE
    ELSE get_actual_lender_accrued_rate(reserve)

\* utils::get_collat_coeff:
\* [underlying_balance + lender_ar * total_debt_token] / total_stoken
get_collat_coeff(reserve, s_token_supply, s_token_underlying_balance, debt_token_supply) ==
    IF s_token_supply = 0 THEN ONE
    ELSE from_rational(
            s_token_underlying_balance
                + mul_int(get_actual_lender_accrued_rate(reserve), debt_token_supply),
            s_token_supply)

\* The underlying the s-token of the reserve holds plus the debt tokens of the
\* reserve valued at the lender index, and the s-tokens valued at a coefficient
BackedUnderlying(asset) ==
    underlying[asset]["stoken"]
        + mul_int(get_actual_lender_accrued_rate(reserves[asset]), d_supply[asset])

CollatCoeff(asset) ==
    get_collat_coeff(reserves[asset], s_supply[asset], underlying[asset]["stoken"],
                     d_supply[asset])

AccountList == <<"borrower", "liquidator", "lender">>

\* The s-token balances of all holders of the reserve converted to underlying
\* at a coefficient, each truncated
CompoundedBalances(coeff, asset) ==
    SumSeq([k \in 1..Len(AccountList) |->
                mul_int(coeff, s_balance[asset][AccountList[k]])])

\* C24: in every reachable state and for every reserve, the s-token balances
\* of all users converted at collat_coeff (each truncated) sum to at most the
\* underlying of the s-token plus lender_ar * debt-token supply, where
\* collat_coeff is that quantity divided by the s-token supply, and exactly 1
\* when the s-token supply is 0.
C24_BalancesBacked ==
    \A asset \in Reserves :
        /\ CompoundedBalances(CollatCoeff(asset), asset) <= BackedUnderlying(asset)
        /\ s_supply[asset] > 0 =>
              CollatCoeff(asset) = from_rational(BackedUnderlying(asset), s_supply[asset])
        /\ get_collat_coeff(reserves[asset], 0, underlying[asset]["stoken"],
                            d_supply[asset]) = ONE

\* several holders of the s-tokens of a reserve with debt whose coefficient is
\* above 1 and is not a whole multiple of the unit of the s-token supply
C24_Witness ==
    \E asset \in Reserves :
        /\ \E a, b \in Accounts :
              a # b /\ s_balance[asset][a] > 0 /\ s_balance[asset][b] > 0
        /\ d_supply[asset] > 0
        /\ CollatCoeff(asset) > ONE
        /\ CompoundedBalances(CollatCoeff(asset), asset) < BackedUnderlying(asset)
        /\ last.err = "Ok"

\* the operations that move tokens
TokenOps == {"deposit", "withdraw", "borrow", "repay", "liquidate", "flash_loan"}

\* The pool's counters of a reserve agree with the token contracts
Mirrored(asset) ==
    /\ stoken_underlying_balance[asset] = underlying[asset]["stoken"]
    /\ token_total_supply.s[asset] = s_supply[asset]
    /\ token_total_supply.d[asset] = d_supply[asset]
    /\ \A who \in Accounts :
          /\ token_balance.s[asset][who] = s_balance[asset][who]
          /\ token_balance.d[asset][who] = d_balance[asset][who]

\* C25: after every successful deposit, withdraw, borrow, repay, liquidate
\* and flash_loan, for every reserve the pool's stoken_underlying_balance
\* equals the underlying the s-token contract holds, and the pool's mirrored
\* total supplies and balances equal those of the s-token and the debt token.
C25_CountersMirrorTokens ==
    (last.err = "Ok" /\ last.op \in TokenOps) => \A asset \in Reserves : Mirrored(asset)

\* C26: after any sequence of grant_permission and revoke_permission calls on
\* the initialized pool, Permission::Permission has at least one holder, and a
\* revoke of its last holder fails with NoPermissioned and removes nothing.
C26_PermissionHolderRemains ==
    /\ Len(permission_owners["Permission"]) > 0
    /\ \A who, owner \in Accounts :
          (/\ require_permission(permission_owners, who, "Permission") = "Ok"
           /\ permission_owners["Permission"] = <<owner>>)
             => \E r \in {revoke_permission(permission_owners, who, owner, "Permission")} :
                   r.err = "NoPermissioned" /\ r.owners = permission_owners

\* the permission has passed from the admin to another holder, who has tried
\* to revoke it from themselves as its last holder
C26_Witness ==
    /\ permission_owners["Permission"] = <<"borrower">>
    /\ last.op = "revoke_permission"
    /\ last.err = "NoPermissioned"
    /\ last.by = "borrower"
    /\ last.who = "borrower"

\* The reserves a liquidation with result r has seized collateral of the
\* borrower from without the borrower owing or the liquidator holding any of
\* it: only the seizure moves their underlying
SeizedOnly(r, liquidator, who) ==
    {asset \in Reserves :
        /\ r.st.s_balance[asset][who] < s_balance[asset][who]
        /\ d_balance[asset][who] = 0
        /\ liquidator # who}

\* the protocol's share of an amount of seized underlying
ProtocolFee(amount) ==
    mul_int(from_percentage(pool_config.liquidation_protocol_fee), amount)

\* C27: in a successful liquidation with receive_stoken = false, for every
\* seized collateral the liquidator receives the underlying removed from the
\* s-token less liquidation_protocol_fee of it, and the treasury grows by
\* exactly that fee, so the two amounts add up to the underlying removed.
C27_LiquidationProtocolFee ==
    \A liquidator, who \in Users :
        \E r \in {liquidate(Cur, liquidator, who, FALSE)} :
            r.err = "Ok" =>
                \A asset \in SeizedOnly(r, liquidator, who) :
                    \E removed \in {-Gained(r.st, asset, "stoken")} :
                        /\ Gained(r.st, asset, liquidator) = removed - ProtocolFee(removed)
                        /\ Gained(r.st, asset, "treasury") = ProtocolFee(removed)
                        /\ Gained(r.st, asset, liquidator)
                               + Gained(r.st, asset, "treasury") = removed

\* The collateral reserves of who that a liquidation with result r has seized
\* all s-tokens of
SeizedInWhole(r, who) ==
    {i \in user_config[who].collateral :
        s_balance[i][who] > 0 /\ r.st.s_balance[i][who] = 0}

\* the reserves of who that are in use before the call and not after it
NoLongerUsed(r, who) ==
    (user_config[who].collateral \cup user_config[who].borrowing)
        \ (r.st.user_config[who].collateral \cup r.st.user_config[who].borrowing)

\* C28: after a successful liquidate the borrower's collateral bit of a
\* reserve is cleared exactly when all the borrower's s-tokens of the reserve
\* were seized, and stays set otherwise, and the borrower's total_assets is
\* reduced by the number of reserves whose bits the call cleared.
C28_CollateralBitsAfterLiquidation ==
    \A liquidator, who \in Users, receive_stoken \in BOOLEAN :
        \E r \in {liquidate(Cur, liquidator, who, receive_stoken)} :
            (r.err = "Ok" /\ liquidator # who) =>
                /\ r.st.user_config[who].collateral
                       = user_config[who].collateral \ SeizedInWhole(r, who)
                /\ r.st.user_config[who].total_assets
                       = user_config[who].total_assets - Cardinality(NoLongerUsed(r, who))

\* The account position of who in storage S: discounted collateral, debt, npv
PositionFields(account_data) ==
    <<account_data.discounted_collateral, account_data.debt, account_data.npv>>

PositionOf(S, who) == PositionFields(get_account_position(S, who))

\* the tokens and the configuration of who are in S what they are now
SameTokensAndConfig(S, who) ==
    /\ S.user_config[who] = user_config[who]
    /\ \A asset \in Reserves :
          /\ S.s_balance[asset][who] = s_balance[asset][who]
          /\ S.d_balance[asset][who] = d_balance[asset][who]

\* C29: a successful liquidation with receive_stoken = false leaves the
\* liquidator's user configuration and account position (discounted
\* collateral, debt, npv) unchanged; only the liquidator's balances of the
\* underlying assets change.
C29_LiquidatorUntouched ==
    \A liquidator, who \in Users :
        \E r \in {liquidate(Cur, liquidator, who, FALSE)} :
            (r.err = "Ok" /\ liquidator # who) =>
                /\ SameTokensAndConfig(r.st, liquidator)
                /\ PositionOf(r.st, liquidator) = PositionOf(Cur, liquidator)

\* C29, amended: a successful liquidation with receive_stoken = false leaves
\* the liquidator's user configuration and the liquidator's s-token and debt
\* token balances unchanged, and with them the liquidator's account position
\* as far as the reserves are not re-accrued: the position valued on the
\* reserves as they were before the call is unchanged, and so is the position
\* itself whenever the call leaves the reserves the liquidator uses as they
\* were.
C29_LiquidatorTokensUntouched ==
    \A liquidator, who \in Users :
        \E r \in {liquidate(Cur, liquidator, who, FALSE)} :
            (r.err = "Ok" /\ liquidator # who) =>
                /\ SameTokensAndConfig(r.st, liquidator)
                /\ PositionOf([r.st EXCEPT !.reserves = reserves], liquidator)
                       = PositionOf(Cur, liquidator)
                /\ (\A asset \in user_config[liquidator].collateral
                                    \cup user_config[liquidator].borrowing :
                        r.st.reserves[asset] = reserves[asset])
                      => PositionOf(r.st, liquidator) = PositionOf(Cur, liquidator)

\* a liquidator with a deposit in the borrowed reserve has liquidated the
\* borrower some time after the last update of that reserve and has received
\* the seized collateral in the underlying
C29_Witness ==
    /\ last.op = "liquidate" /\ last.err = "Ok"
    /\ last.by = "liquidator" /\ last.who = "borrower"
    /\ user_config["liquidator"].collateral = {DebtAsset}
    /\ s_balance[DebtAsset]["liquidator"] > 0
    /\ \A asset \in Reserves \ {DebtAsset} : s_balance[asset]["liquidator"] = 0
    /\ \E asset \in Reserves \ {DebtAsset} : underlying[asset]["liquidator"] > UserFunds
    /\ reserves[DebtAsset].last_update_timestamp = RateTime
    /\ reserves[DebtAsset].collat_accrued_rate > ONE

\* The liquidator owes debt of a reserve that the liquidation of who seizes
\* collateral from: the reserves seized are those the call with
\* receive_stoken = false takes s-tokens of
OwesSeizedReserve(liquidator, who) ==
    \E r \in {liquidate(Cur, liquidator, who, FALSE)} :
        /\ r.err = "Ok"
        /\ \E asset \in Reserves :
              /\ r.st.s_balance[asset][who] < s_balance[asset][who]
              /\ d_balance[asset][liquidator] > 0

\* C30: whenever the liquidator has debt in a reserve the call would seize
\* collateral from, liquidate with receive_stoken = true fails with
\* MustNotHaveDebt and changes nothing.
C30_MustNotHaveDebt ==
    \A liquidator, who \in Users :
        OwesSeizedReserve(liquidator, who) =>
            liquidate(Cur, liquidator, who, TRUE) = Result("MustNotHaveDebt", Cur)

\* C30 happens: a liquidation has been refused with MustNotHaveDebt, the
\* liquidator owing debt of a reserve the borrower holds as collateral
C30_Witness ==
    /\ last.op = "liquidate"
    /\ last.err = "MustNotHaveDebt"
    /\ last.by # last.who
    /\ \E asset \in user_config[last.who].collateral :
          /\ s_balance[asset][last.who] > 0
          /\ d_balance[asset][last.by] > 0
    /\ OwesSeizedReserve(last.by, last.who)

\* The reserves the liquidation of who seizes collateral from that the
\* liquidator neither holds as collateral nor owes: receiving their s-tokens
\* adds an asset to the liquidator's configuration
NewlySeizedIn(S, liquidator, who) ==
    {asset \in Reserves :
        /\ S.s_balance[asset][who] < s_balance[asset][who]
        /\ ~is_using_as_collateral_or_borrowing(user_config[liquidator], asset)}

NewlySeized(liquidator, who) ==
    NewlySeizedIn(liquidate(Cur, liquidator, who, FALSE).st, liquidator, who)

\* C30, amended: whenever the liquidator has debt in a reserve the call would
\* seize collateral from, liquidate with receive_stoken = true fails and
\* changes nothing; it fails with MustNotHaveDebt unless the s-tokens of a
\* reserve seized before that one take the liquidator's configuration over
\* user_assets_limit, in which case it fails with UserAssetsLimitExceeded.
C30_FailsWhenOwingSeized ==
    \A liquidator, who \in Users :
        OwesSeizedReserve(liquidator, who) =>
            \E r \in {liquidate(Cur, liquidator, who, TRUE)} :
                /\ r.st = Cur
                /\ r.err \in {"MustNotHaveDebt", "UserAssetsLimitExceeded"}
                /\ r.err = "UserAssetsLimitExceeded" =>
                      user_config[liquidator].total_assets
                          + Cardinality(NewlySeized(liquidator, who))
                              > pool_config.user_assets_limit

\* the position of who is bad and has a collateral leg and a debt leg, and its
\* discounted collateral is positive: liquidate enters its two loops
EntersLoops(account_data) ==
    /\ account_data.err = "Ok"
    /\ ~is_good_position(account_data)
    /\ Len(account_data.liq_collats) > 0
    /\ Len(account_data.liq_debts) > 0
    /\ account_data.discounted_collateral > 0

\* the running values of liquidate at the end of its loop over the
\* collateral legs of account_data
AfterCollatLoop(account_data, liquidator, who, receive_stoken) ==
    liquidate_collats(
        LiqAcc("Ok", Cur, account_data.debt, account_data.discounted_collateral,
               0, FALSE, user_config[who], FALSE),
        account_data.liq_collats, liquidator, who, receive_stoken,
        from_percentage(pool_config.initial_health), calc_liq_bonus(account_data))

\* the loop over the collateral legs has seized every leg in full and has
\* left running values acc with a debt still to be covered
CollateralExhausted(acc, who) ==
    /\ acc.err = "Ok"
    /\ \A a \in Reserves : acc.st.s_balance[a][who] = 0
    /\ acc.total_debt_after_in_base > 0

\* the liquidations of who by liquidator that exhaust the collateral of who
\* while debt remains
ExhaustingLiquidation(account_data, liquidator, who, receive_stoken) ==
    /\ EntersLoops(account_data)
    /\ CollateralExhausted(
          AfterCollatLoop(account_data, liquidator, who, receive_stoken), who)

\* C31: a liquidation that has seized all of the borrower's collateral while
\* the debt still to be covered is positive, the borrower still having debt
\* legs, fails with NotEnoughCollateral and changes nothing.
C31_NotEnoughCollateral ==
    Committed /\ ~paused =>
        \A liquidator \in Users, who \in Users, receive_stoken \in BOOLEAN :
            (who # liquidator
                /\ user_config[who].exists
                /\ ExhaustingLiquidation(
                      calc_account_data(Cur, who, NoBalance, user_config[who], TRUE),
                      liquidator, who, receive_stoken))
            => \E r \in {liquidate(Cur, liquidator, who, receive_stoken)} :
                  r.err = "NotEnoughCollateral" /\ r.st = Cur

\* the amounts of s-tokens a holder asks to transfer: nothing, a part of a
\* deposit, a whole deposit
TransferredAmounts == {0, 7, 400, 1000}

\* the position of from once the s-token has moved amount of asset from from
\* to to: the account data of from on the balances the s-token then holds
PositionAfterTransfer(moved, asset, from) ==
    calc_account_data(get_actual_reserve_data(moved.st, asset), from, NoBalance,
                      user_config[from], FALSE)

\* what a transfer with result r owes to the position position of its sender
\* after it: it succeeds only if the position is good, and when the position
\* is not good it fails and leaves everything as it was, with BadPosition
\* when the pool is not paused and the sender has a user configuration
TransferGuarded(r, position, from) ==
    /\ r.err = "Ok" => position.err = "Ok" /\ position.npv > 0
    /\ ~(position.npv > 0) =>
          /\ r.err # "Ok"
          /\ r.st = Cur
          /\ (~paused /\ user_config[from].exists) => r.err = "BadPosition"

\* C32: a transfer of s-tokens by their holder commits only if the position
\* of the sender, valued with the s-token balance the sender has after the
\* transfer, is good (npv > 0); if it is not, the transfer fails with
\* BadPosition and no balance and no user configuration changes.
C32_TransferKeepsGoodPosition ==
    Committed =>
        \A from \in Users, to \in Users, asset \in Reserves, amount \in TransferredAmounts :
        \E moved \in {s_token_move(Cur, asset, from, to, amount)} :
            moved.err = "Ok" =>
                TransferGuarded(s_token_transfer(Cur, asset, from, to, amount),
                                PositionAfterTransfer(moved, asset, from), from)

\* C32 happens: a debtor has transferred a whole deposit of s-tokens to
\* another user and has kept a good position.
C32_Witness ==
    /\ last.op = "transfer"
    /\ last.err = "Ok"
    /\ \E a \in Reserves : d_balance[a][last.by] > 0
    /\ s_balance[last.asset][last.by] = 0
    /\ Position(last.by).npv > 0
    /\ \E to \in Users \ {last.by} : s_balance[last.asset][to] >= 1000

\* the amounts a borrow is asked for: negative, nothing, and the amounts of
\* the borrow action
BorrowedAmounts == {-1, 0} \cup BorrowAmounts

\* the errors the state of reserve and the amount entitle a borrow to fail
\* with
BorrowRefusals(reserve, amount) ==
    (IF ~reserve.is_active THEN {"NoActiveReserve"} ELSE {})
        \cup (IF reserve.is_frozen THEN {"ReserveFrozen"} ELSE {})
        \cup (IF ~reserve.borrowing_enabled \/ reserve.reserve_type = "RWA"
              THEN {"BorrowingNotEnabled"} ELSE {})
        \cup (IF amount <= 0 THEN {"InvalidAmount"} ELSE {})

\* C33: a borrow from a reserve that is inactive, frozen, closed to borrowing
\* or RWA, or of an amount that is not positive, by a user with a user
\* configuration while the pool is not paused, fails with the error of one of
\* these conditions (NoActiveReserve, ReserveFrozen, BorrowingNotEnabled,
\* InvalidAmount) and changes nothing.
C33_BorrowRefused ==
    Committed /\ ~paused =>
        \A who \in Users, asset \in Reserves, amount \in BorrowedAmounts :
        \E r \in {borrow(Cur, who, asset, amount)} :
            user_config[who].exists /\ BorrowRefusals(reserves[asset], amount) # {} =>
                /\ r.err \in BorrowRefusals(reserves[asset], amount)
                /\ r.st = Cur

\* the running values of liquidate after the first k iterations of its loop
\* over the collateral legs of account_data, a break or a failure included
AfterCollatLegs(account_data, k, liquidator, who, receive_stoken) ==
    liquidate_collats(
        LiqAcc("Ok", Cur, account_data.debt, account_data.discounted_collateral,
               0, FALSE, user_config[who], FALSE),
        SubSeq(account_data.liq_collats, 1, k), liquidator, who, receive_stoken,
        from_percentage(pool_config.initial_health), calc_liq_bonus(account_data))

\* the running npv of the running values acc
RunningNpv(acc) == acc.total_collat_disc_after_in_base - acc.total_debt_after_in_base

\* the collateral leg k of account_data is the first one after which the
\* loop, not having failed, holds a running npv in reached
FirstLegReaching(account_data, k, liquidator, who, receive_stoken, reached) ==
    /\ AfterCollatLegs(account_data, k, liquidator, who, receive_stoken).err = "Ok"
    /\ RunningNpv(AfterCollatLegs(account_data, k, liquidator, who, receive_stoken))
          \in reached
    /\ \A i \in 1..(k - 1) :
          RunningNpv(AfterCollatLegs(account_data, i, liquidator, who, receive_stoken))
              \notin reached

\* the loop over the collateral legs of account_data makes no iteration after
\* leg k: its running values after the last leg are those after leg k, and no
\* s-token of the borrower in a later leg has moved
StopsAfterLeg(account_data, k, liquidator, who, receive_stoken) ==
    /\ AfterCollatLegs(account_data, Len(account_data.liq_collats), liquidator, who,
                       receive_stoken)
          = AfterCollatLegs(account_data, k, liquidator, who, receive_stoken)
    /\ \A j \in (k + 1)..Len(account_data.liq_collats) :
          AfterCollatLegs(account_data, Len(account_data.liq_collats), liquidator, who,
                          receive_stoken).st.s_balance[account_data.liq_collats[j].asset][who]
              = s_balance[account_data.liq_collats[j].asset][who]

\* in every liquidation that enters the loops, the loop over the collateral
\* legs stops after the first leg that leaves a running npv in reached
StopsWhenReaching(reached) ==
    Committed /\ ~paused =>
        \A liquidator \in Users, who \in Users, receive_stoken \in BOOLEAN :
        \E account_data \in {calc_account_data(Cur, who, NoBalance, user_config[who], TRUE)} :
            who # liquidator /\ user_config[who].exists /\ EntersLoops(account_data) =>
                \A k \in 1..Len(account_data.liq_collats) :
                    FirstLegReaching(account_data, k, liquidator, who, receive_stoken, reached)
                        => StopsAfterLeg(account_data, k, liquidator, who, receive_stoken)

\* the values a running npv takes
NpvRange == -(4 * Liquidity) .. (4 * Liquidity)

CollatLegsAscending(account_data) ==
    \A i, j \in 1..Len(account_data.liq_collats) :
        i < j =>
            \/ account_data.liq_collats[i].reserve.liquidation_order
                  < account_data.liq_collats[j].reserve.liquidation_order
            \/ /\ account_data.liq_collats[i].reserve.liquidation_order
                     = account_data.liq_collats[j].reserve.liquidation_order
               /\ account_data.liq_collats[i].asset < account_data.liq_collats[j].asset

\* the debt legs of account_data are in descending compounded-debt order
DebtLegsDescending(account_data) ==
    \A i, j \in 1..Len(account_data.liq_debts) :
        i < j => account_data.liq_debts[i].compounded_debt
                    >= account_data.liq_debts[j].compounded_debt

\* the liquidation with result r has seized s-tokens of who in reserve asset
SeizedFrom(r, asset, who) == r.st.s_balance[asset][who] < s_balance[asset][who]

\* the liquidation with result r has left who no s-token in reserve asset
LegSeizedInFull(r, asset, who) == r.st.s_balance[asset][who] = 0

\* the liquidation with result r has burnt debt tokens of who in reserve asset
RepaidFrom(r, asset, who) == r.st.d_balance[asset][who] < d_balance[asset][who]

\* the liquidation with result r has left who no debt token in reserve asset
LegRepaidInFull(r, asset, who) == r.st.d_balance[asset][who] = 0

\* the liquidation with result r of the legs of account_data has seized from a
\* collateral leg only if it has seized every earlier leg in full
SeizedInOrder(r, account_data, who) ==
    \A i, j \in 1..Len(account_data.liq_collats) :
        i < j /\ SeizedFrom(r, account_data.liq_collats[j].asset, who)
            => LegSeizedInFull(r, account_data.liq_collats[i].asset, who)

\* the liquidation with result r of the legs of account_data has seized from a
\* collateral leg only if it has seized every earlier leg in full or has
\* left the running npv at or below 0 after it
SeizedInOrderWhileBad(r, account_data, liquidator, who, receive_stoken) ==
    \A i, j \in 1..Len(account_data.liq_collats) :
        i < j /\ SeizedFrom(r, account_data.liq_collats[j].asset, who)
            => \/ LegSeizedInFull(r, account_data.liq_collats[i].asset, who)
               \/ RunningNpv(AfterCollatLegs(account_data, i, liquidator, who,
                                             receive_stoken)) <= 0

\* the liquidation with result r of the legs of account_data has repaid a
\* debt leg only if it has repaid every larger debt leg in full
RepaidInOrder(r, account_data, who) ==
    \A i, j \in 1..Len(account_data.liq_debts) :
        /\ account_data.liq_debts[i].compounded_debt
              > account_data.liq_debts[j].compounded_debt
        /\ RepaidFrom(r, account_data.liq_debts[j].asset, who)
        => LegRepaidInFull(r, account_data.liq_debts[i].asset, who)

LegRun(account_data, k, liquidator, who, receive_stoken) ==
    [before |-> AfterCollatLegs(account_data, k - 1, liquidator, who, receive_stoken),
     after |-> AfterCollatLegs(account_data, k, liquidator, who, receive_stoken)]

\* the collateral that the iteration run hands the liquidator for the leg
\* collat, in underlying: the underlying received, or what the s-tokens
\* received stand for
LegSeized(run, collat, liquidator, receive_stoken) ==
    IF receive_stoken
    THEN mul_int(collat.coeff,
                 run.after.st.s_balance[collat.asset][liquidator]
                     - run.before.st.s_balance[collat.asset][liquidator])
    ELSE run.after.st.underlying[collat.asset][liquidator]
            - run.before.st.underlying[collat.asset][liquidator]

\* the debt in base that the iteration run adds to what the liquidator must
\* cover
LegDebtToCover(run) ==
    run.after.total_debt_to_cover_in_base - run.before.total_debt_to_cover_in_base

\* what the liquidation with result r takes from the liquidator, in base: the
\* underlying of every reserve that has left the liquidator
PaidInBase(r, liquidator) ==
    SumSeq([k \in 1..Len(ReserveList) |->
        convert_to_base(ReserveList[k],
            Max(underlying[ReserveList[k]][liquidator]
                    - r.st.underlying[ReserveList[k]][liquidator], 0))])

\* what the liquidation with result r hands the liquidator, in base: the
\* underlying received and what the s-tokens received stand for
ReceivedInBase(r, liquidator) ==
    SumSeq([k \in 1..Len(ReserveList) |->
        convert_to_base(ReserveList[k],
            Max(r.st.underlying[ReserveList[k]][liquidator]
                    - underlying[ReserveList[k]][liquidator], 0)
            + mul_int(get_collateral_coeff(r.st.reserves[ReserveList[k]]),
                      r.st.s_balance[ReserveList[k]][liquidator]
                          - s_balance[ReserveList[k]][liquidator]))])

\* debt_in_base is (100% - liq_bonus) of seized units of asset, valued in
\* base: the fixed-point product of the two, each multiplication truncated,
\* and so never more than the value of the seized units
DebtToCoverOfSeized(debt_in_base, liq_bonus, asset, seized) ==
    /\ debt_in_base
          = convert_to_base(asset,
                mul_int(from_percentage(PERCENTAGE_FACTOR) - liq_bonus, seized))
    /\ debt_in_base <= convert_to_base(asset, seized)

\* liq_bonus as the claim states it
StatedLiqBonus(account_data) ==
    Min(Abs(Min(0, from_rational(account_data.npv, account_data.discounted_collateral))),
        from_percentage(PERCENTAGE_FACTOR))

RECURSIVE SettleInOrder(_, _, _, _)
\* the second loop of flash_loan if each leg were settled on the reserves as
\* the legs before it have left them
SettleInOrder(r, loan_assets, who, receiver) ==
    IF loan_assets = <<>> \/ r.err # "Ok" THEN r
    ELSE Then(flash_loan_settle_one(r.st, Head(loan_assets), who, receiver,
                                    r.st.reserves),
              LAMBDA r1 : SettleInOrder(r1, Tail(loan_assets), who, receiver))

\* two results of a call are the same: the same error, and after a success
\* the same storage
SameOutcome(r1, r2) == r1.err = r2.err /\ (r1.err = "Ok" => r1.st = r2.st)

\* the flash loans of two legs on one asset
TwoLegLoans ==
    {<<FlashLoanAsset(asset, first, borrow1), FlashLoanAsset(asset, second, borrow2)>> :
        asset \in Reserves, first \in FlashLoanAmounts, second \in FlashLoanAmounts,
        borrow1 \in BOOLEAN, borrow2 \in BOOLEAN}

\* C37: when a flash loan has two legs on the same asset, the second leg is
\* settled against the reserve as the first leg has left it, not against the
\* reserve as it was read before the first leg: the call ends as it would if
\* each leg were settled on the reserves left by the legs before it.
C37_SecondLegSeesFirst ==
    Committed /\ ~paused =>
        \A who \in Users, loan_assets \in TwoLegLoans :
        \E sent \in {flash_loan_send(Result("Ok", Cur), loan_assets, "receiver")} :
            sent.err = "Ok" =>
                SameOutcome(flash_loan_settle(sent, loan_assets, who, "receiver", reserves),
                            SettleInOrder(sent, loan_assets, who, "receiver"))

\* the values of a list in ascending order, each as often as the list has it
Ascending(values) == SortSeq(values, LAMBDA a, b : a < b)

\* the median of a list of values, each counted as often as the list has
\* it; of an even number of values, the truncated mean of the two middle ones
MedianWithMultiplicity(values) ==
    IF Len(values) % 2 = 1 THEN Ascending(values)[(Len(values) + 1) \div 2]
    ELSE TruncDiv(Ascending(values)[Len(values) \div 2]
                      + Ascending(values)[Len(values) \div 2 + 1], 2)

\* the price a new PriceProvider computes for asset 1 is the median of the
\* TWAPs of its feeds, each feed counted
PriceIsMedianOfFeeds ==
    provider_price(NoPrices, DebtAsset, feed_twaps).price
        = MedianWithMultiplicity([i \in 1..Len(feed_twaps) |-> twap_price(feed_twaps[i])])

\* a PriceProvider that has computed the price of asset 1 returns that price
\* again and leaves it as it is
ComputedPriceKept ==
    last'.op = "price" /\ provider_prices[DebtAsset].some =>
        /\ price'[DebtAsset] = provider_prices[DebtAsset].price
        /\ provider_prices' = provider_prices

\* C38: for one feed or more, the price of an asset is the median of the
\* TWAPs of its feeds, each feed counted also when feeds report the same TWAP
\* (of an even number, the truncated mean of the two middle ones), and once a
\* call has computed the price it uses the same price for every conversion.
C38_MedianOfTwaps == [](PriceIsMedianOfFeeds) /\ [][ComputedPriceKept]_vars

\* the errors of arithmetic
MathErrors ==
    {"CalcAccountDataMathError", "LiquidateMathError", "MathOverflowError"}

\* the position account_data is one liquidate is for: it is bad and has a
\* collateral leg and a debt leg, all on active reserves
Liquidatable(account_data) ==
    /\ account_data.err = "Ok"
    /\ account_data.npv <= 0
    /\ Len(account_data.liq_collats) > 0
    /\ Len(account_data.liq_debts) > 0

\* discount + liq_bonus - 100% - discount * initial_health of the collateral
\* leg collat
SafeDiscount(account_data, collat) ==
    from_percentage(collat.reserve.discount) + calc_liq_bonus(account_data)
        - from_percentage(PERCENTAGE_FACTOR)
        - checked_mul(from_percentage(collat.reserve.discount),
                      from_percentage(pool_config.initial_health))

\* the loop over the collateral legs of account_data reaches a leg whose
\* safe discount is 0: the leg k, every iteration before it having succeeded
\* without a break
ReachesZeroSafeDiscount(account_data, liquidator, who, receive_stoken) ==
    \E k \in 1..Len(account_data.liq_collats) :
        /\ SafeDiscount(account_data, account_data.liq_collats[k]) = 0
        /\ AfterCollatLegs(account_data, k - 1, liquidator, who, receive_stoken).err = "Ok"
        /\ ~AfterCollatLegs(account_data, k - 1, liquidator, who, receive_stoken).stop

\* C39 as claimed: liquidate of a bad position with a collateral leg and a
\* debt leg on active reserves, by a liquidator who holds enough underlying,
\* does not fail with an error of arithmetic, whatever the discounted
\* collateral and the safe discount are.
C39_NoMathError ==
    Committed /\ ~paused =>
        \A liquidator \in Users, who \in Users, receive_stoken \in BOOLEAN :
        \E account_data \in {calc_account_data(Cur, who, NoBalance, user_config[who], TRUE)} :
        \E r \in {liquidate(Cur, liquidator, who, receive_stoken)} :
            who # liquidator /\ user_config[who].exists /\ Liquidatable(account_data) =>
                r.err \notin MathErrors

\* C39, amended: such a liquidation fails with an error of arithmetic in two
\* cases only, with CalcAccountDataMathError and changing nothing: when the
\* discounted collateral is 0, and when the loop reaches a collateral leg
\* whose safe discount is 0.
C39_MathErrorOnlyAtZeroDivisor ==
    Committed /\ ~paused =>
        \A liquidator \in Users, who \in Users, receive_stoken \in BOOLEAN :
        \E account_data \in {calc_account_data(Cur, who, NoBalance, user_config[who], TRUE)} :
        \E r \in {liquidate(Cur, liquidator, who, receive_stoken)} :
            who # liquidator /\ user_config[who].exists /\ Liquidatable(account_data) =>
                IF account_data.discounted_collateral = 0
                    \/ ReachesZeroSafeDiscount(account_data, liquidator, who, receive_stoken)
                THEN r.err = "CalcAccountDataMathError" /\ r.st = Cur
                ELSE r.err \notin MathErrors

\* a liquidation of a bad position refused for a safe discount of 0: the
\* discounted collateral is positive, and the liquidation of the same
\* position is refused with CalcAccountDataMathError
C39_Witness ==
    /\ Committed /\ ~paused
    /\ \E liquidator \in Users, who \in Users :
       \E account_data \in {calc_account_data(Cur, who, NoBalance, user_config[who], TRUE)} :
          /\ who # liquidator /\ user_config[who].exists
          /\ Liquidatable(account_data)
          /\ account_data.discounted_collateral > 0
          /\ ReachesZeroSafeDiscount(account_data, liquidator, who, FALSE)
          /\ liquidate(Cur, liquidator, who, FALSE).err = "CalcAccountDataMathError"

\* a liquidation of a bad position refused for a discounted collateral of 0
C39_ZeroCollateral ==
    /\ Committed /\ ~paused
    /\ \E liquidator \in Users, who \in Users :
       \E account_data \in {calc_account_data(Cur, who, NoBalance, user_config[who], TRUE)} :
          /\ who # liquidator /\ user_config[who].exists
          /\ Liquidatable(account_data)
          /\ account_data.discounted_collateral = 0
          /\ liquidate(Cur, liquidator, who, FALSE).err = "CalcAccountDataMathError"

\* every reserve of the list has an id, the ids are distinct and within a u8
ReserveIdsDistinct ==
    /\ DOMAIN reserve_ids = {reserves_vec[k] : k \in 1..Len(reserves_vec)}
    /\ \A a \in DOMAIN reserve_ids : reserve_ids[a] \in 0..u8_MAX
    /\ \A a \in DOMAIN reserve_ids, b \in DOMAIN reserve_ids :
          a # b => reserve_ids[a] # reserve_ids[b]

\* a step leaves every reserve its id
ReserveIdsKept ==
    \A a \in DOMAIN reserve_ids :
        a \in DOMAIN reserve_ids' /\ reserve_ids'[a] = reserve_ids[a]

\* calc_account_data can iterate the reserves admitted so far: borrow,
\* withdraw, liquidate and get_account_position do not fail with
\* ReservesMaxCapacityExceeded
NoCapacityError ==
    /\ u8_try_from(Len(reserves_vec)) # NoU8
    /\ \A who \in Users :
          /\ get_account_position(Cur, who).err # "ReservesMaxCapacityExceeded"
          /\ \A asset \in Reserves, amount \in BorrowAmounts :
                borrow(Cur, who, asset, amount).err # "ReservesMaxCapacityExceeded"
          /\ \A asset \in Reserves, amount \in WithdrawAmounts :
                withdraw(Cur, who, asset, amount, who).err # "ReservesMaxCapacityExceeded"
          /\ \A liquidator \in Users \ {who} :
                liquidate(Cur, liquidator, who, FALSE).err # "ReservesMaxCapacityExceeded"

\* an init_reserve that would take the list beyond what calc_account_data can
\* iterate fails with ReservesMaxCapacityExceeded and adds nothing
RefusedBeyondCapacity ==
    \E r \in {init_reserve(reserves_vec, reserve_ids, NextAsset)} :
        u8_try_from(Len(reserves_vec) + 1) = NoU8 =>
            /\ r.err = "ReservesMaxCapacityExceeded"
            /\ r.vec = reserves_vec /\ r.ids = reserve_ids

\* C40: after any sequence of init_reserve calls every reserve has a distinct
\* id in 0..255 that never changes; init_reserve admits no more reserves than
\* calc_account_data can iterate, so that borrow, withdraw, liquidate and
\* get_account_position never fail with ReservesMaxCapacityExceeded; an
\* init_reserve beyond the capacity fails with ReservesMaxCapacityExceeded
\* and adds nothing.
C40_ReserveCapacity ==
    /\ [](ReserveIdsDistinct /\ NoCapacityError /\ RefusedBeyondCapacity)
    /\ [][ReserveIdsKept]_vars

\* the ids alone: distinct, within a u8 and kept by every step
C40_IdsDistinctAndKept == [](ReserveIdsDistinct) /\ [][ReserveIdsKept]_vars

\* the list as init_reserve bounds it: at most u8::MAX + 1 reserves, and an
\* init_reserve on a list of u8::MAX + 1 is refused and adds nothing
C40_RefusedAboveU8Max ==
    /\ Len(reserves_vec) <= u8_MAX + 1
    /\ \E r \in {init_reserve(reserves_vec, reserve_ids, NextAsset)} :
          Len(reserves_vec) > u8_MAX =>
              /\ r.err = "ReservesMaxCapacityExceeded"
              /\ r.vec = reserves_vec /\ r.ids = reserve_ids

\* the borrower's position cannot be read: the list holds u8::MAX + 1
\* reserves and every call that computes the account data is refused
C40_PositionUnreadable ==
    /\ Len(reserves_vec) = u8_MAX + 1
    /\ ~is_empty(user_config["borrower"])
    /\ get_account_position(Cur, "borrower").err = "ReservesMaxCapacityExceeded"
    /\ liquidate(Cur, "liquidator", "borrower", FALSE).err = "ReservesMaxCapacityExceeded"
    /\ borrow(Cur, "borrower", DebtAsset, 5).err = "ReservesMaxCapacityExceeded"

====
